---- MODULE Spec2Model ----
(***************************************************************************)
(* Model of the query construction engine of pg-query-sdk: Dialect,        *)
(* ParamContext, ConditionBuilder and QueryBuilder.                        *)
(*                                                                         *)
(* SQL text is modelled as the sequence of its tokens.  A token is a       *)
(* record [t, n, v]: t is the token text, n the index printed in an        *)
(* indexed placeholder ($n; 0 otherwise) and v a history annotation that   *)
(* remembers, for a placeholder, the value that was handed to              *)
(* ParamContext.add when the placeholder was produced ("" otherwise).      *)
(* Text(sql) is the text without the annotation.                           *)
(* Bound values are strings ("10", "20", ...); JavaScript null is NULL.    *)
(***************************************************************************)
EXTENDS Integers, Sequences, FiniteSets, TLC

\* Number of builder calls explored in a run of Spec.
MaxOps == 4
\* Number of Statement objects that can exist (two from Database.table(),
\* the rest from clone()).
MaxStmts == 3
\* Number of builder calls explored in a run of SpecCond.
MaxCondOps == 3

VARIABLES
    dialect,   \* "pg" (PostgresDialect) or "mysql" (MysqlDialect), fixed
    stmts,     \* heap of query/QueryBuilder objects, indexed 1..Len(stmts)
    ctxs,      \* heap of ParamContext objects: id -> params array
    repoQb,    \* one builders/QueryBuilder object, as Repository.qb() makes
    ret,       \* outcome of the last call: normal return, build result, throw
    budget,    \* number of calls the run may still make
    views,     \* the arrays getParams() returned and the caller still holds
    builders,  \* ConditionBuilder objects made on their own: parts, ctx
    nodeLists, \* heap of the parts arrays of those builders
    versions,  \* which TransactionManager and QueryExecutor the build holds
    trxs,      \* the calls of Database.transaction(), each with its position
    clients,   \* the PoolClient objects pool.connect() handed out
    poolLog,   \* the queries sent with pool.query()
    uow,       \* the UnitOfWork: the array each of its three fields holds
    arrays,    \* heap of the arrays the UnitOfWork has created
    commits,   \* the calls of UnitOfWork.commit(), each with its position
    repoLog    \* the calls made on the repository, started and finished

cbVars == <<builders, nodeLists>>
trxVars == <<versions, trxs, clients, poolLog>>
uowVars == <<uow, arrays, commits, repoLog>>

vars ==
    <<dialect, stmts, ctxs, repoQb, ret, budget, views, cbVars, trxVars,
      uowVars>>

NULL == "null"

----------------------------------------------------------------------------
(* Tokens *)

W(s) == [t |-> s, n |-> 0, v |-> ""]

IsPH(tok) == tok.t \in {"$", "?"}

Text(sql) == [i \in DOMAIN sql |-> [t |-> sql[i].t, n |-> sql[i].n]]

RECURSIVE Concat(_)
Concat(ss) == IF ss = <<>> THEN <<>> ELSE Head(ss) \o Concat(Tail(ss))

\* Array.prototype.join over fragments
RECURSIVE JoinToks(_, _)
JoinToks(ss, sep) ==
    IF ss = <<>> THEN <<>>
    ELSE IF Len(ss) = 1 THEN ss[1]
    ELSE ss[1] \o sep \o JoinToks(Tail(ss), sep)

Words(strs) == [i \in DOMAIN strs |-> <<W(strs[i])>>]

----------------------------------------------------------------------------
(* Dialects *)

PostgresDialect_placeholder(index) == [t |-> "$", n |-> index]

\* Mutation of MysqlDialect_placeholder: the dialect prints a literal in
\* the place of the parameter
MysqlDialect_placeholder_literal(index) == [t |-> "NULL", n |-> 0]

MysqlDialect_placeholder(index) == [t |-> "?", n |-> 0]

placeholder(index) ==
    IF dialect = "pg" THEN PostgresDialect_placeholder(index)
    ELSE MysqlDialect_placeholder(index)

----------------------------------------------------------------------------
(* ParamContext *)

\* Mutation of ParamContext_add: the value is put in front of the others
ParamContext_add_unshift(params, value) ==
    LET p == <<value>> \o params
        ph == placeholder(Len(p))
    IN [params |-> p, token |-> [t |-> ph.t, n |-> ph.n, v |-> value]]

\* add(value): push, then placeholder(params.length)
ParamContext_add(params, value) ==
    LET p == Append(params, value)
        ph == placeholder(Len(p))
    IN [params |-> p, token |-> [t |-> ph.t, n |-> ph.n, v |-> value]]

\* params.forEach(p => ctx.add(p)) : the returned tokens are dropped
RECURSIVE addEach(_, _)
addEach(params, values) ==
    IF values = <<>> THEN params
    ELSE addEach(ParamContext_add(params, Head(values)).params, Tail(values))

\* value.map(v => this.ctx.add(v)) : params grow, tokens are kept in order
RECURSIVE mapAdd(_, _)
mapAdd(params, values) ==
    IF values = <<>> THEN [params |-> params, tokens |-> <<>>]
    ELSE LET a == ParamContext_add(params, Head(values))
             r == mapAdd(a.params, Tail(values))
         IN [params |-> r.params, tokens |-> <<a.token>> \o r.tokens]

ParamContext_getParams(params) == params

\* Mutation of ParamContext_clone: the new context starts without values
ParamContext_clone_fresh(params) == <<>>

\* clone(): a new context on the same dialect with a copy of the values
ParamContext_clone(params) == params

\* The array object a caller receives from getParams().  ref names the
\* context whose internal array the object is (0: an array of its own, with
\* the values vals); frozen tells whether Object.freeze was applied; ctx is
\* a history field, the context the array was asked from.
\* Mutation of getParamsView: the internal array itself is handed out
getParamsView_aliased(c) ==
    [ref |-> c, frozen |-> FALSE, vals |-> <<>>, ctx |-> c]

\* Object.freeze([...this.params])
getParamsView(c) ==
    [ref |-> 0, frozen |-> TRUE,
     vals |-> ParamContext_getParams(ctxs[c]), ctx |-> c]

\* The elements a caller reads in the array object v
ViewValues(v) == IF v.ref # 0 THEN ctxs[v.ref] ELSE v.vals

----------------------------------------------------------------------------
(* builders/ConditionBuilder and builders/QueryBuilder (Repository.qb()) *)

\* The value a condition object stands for when it is bound as a parameter:
\* a scalar, null, or (for an {op, value} object bound whole) the object.
AsParam(condition) ==
    IF condition.kind = "null" THEN NULL
    ELSE IF condition.kind = "scalar" THEN condition.items[1]
    ELSE "[object Object]"

RECURSIVE BuildersCB_whereEach(_, _, _)
BuildersCB_whereEach(entries, conditions, params) ==
    IF entries = <<>> THEN [conditions |-> conditions, params |-> params]
    ELSE LET a == ParamContext_add(params, AsParam(Head(entries).condition))
         IN BuildersCB_whereEach(Tail(entries),
                Append(conditions, <<W(Head(entries).key), W("="), a.token>>),
                a.params)

BuildersCB_where(obj, conditions, params) ==
    BuildersCB_whereEach(obj, conditions, params)

BuildersCB_build(conditions, prefix) ==
    IF conditions = <<>> THEN <<>>
    ELSE <<W(prefix)>> \o JoinToks(conditions, <<W("AND")>>)

\* A callback handed to andGroup/orGroup of a builders/ConditionBuilder is
\* the sequence of calls it makes on the nested builder
RECURSIVE BuildersCB_runCallback(_, _, _)

\* The tail of andGroup/orGroup once callback(nested) has run: nothing is
\* pushed when the nested builder built '', else lead and the group
BuildersCB_closeGroup(nested, conditions, lead) ==
    IF BuildersCB_build(nested.conditions, "WHERE") = <<>>
    THEN [conditions |-> conditions, params |-> nested.params]
    ELSE [conditions |->
              Append(conditions,
                     lead \o <<W("(")>>
                          \o Tail(BuildersCB_build(nested.conditions, "WHERE"))
                          \o <<W(")")>>),
          params |-> nested.params]

\* this.conditions.push(`(${built.replace(/^WHERE /, '')})`)
BuildersCB_andGroup(cb, conditions, params) ==
    BuildersCB_closeGroup(BuildersCB_runCallback(cb, <<>>, params),
                          conditions, <<>>)

\* this.conditions.push(`OR (${built.replace(/^WHERE /, '')})`)
BuildersCB_orGroup(cb, conditions, params) ==
    BuildersCB_closeGroup(BuildersCB_runCallback(cb, <<>>, params),
                          conditions, <<W("OR")>>)

BuildersCB_callOne(c, conditions, params) ==
    IF c.call = "where" THEN BuildersCB_where(c.obj, conditions, params)
    ELSE IF c.call = "raw"
    THEN [conditions |-> Append(conditions, c.expression), params |-> params]
    ELSE IF c.call = "andGroup"
    THEN BuildersCB_andGroup(c.cb, conditions, params)
    ELSE BuildersCB_orGroup(c.cb, conditions, params)

BuildersCB_thenCalls(r, rest) ==
    BuildersCB_runCallback(rest, r.conditions, r.params)

BuildersCB_runCallback(cb, conditions, params) ==
    IF cb = <<>> THEN [conditions |-> conditions, params |-> params]
    ELSE BuildersCB_thenCalls(BuildersCB_callOne(Head(cb), conditions, params),
                              Tail(cb))

BuildersQB_build(qb) ==
    LET select == IF qb.fields # <<>>
                  THEN JoinToks(Words(qb.fields), <<W(",")>>)
                  ELSE <<W("*")>>
        q1 == <<W("SELECT")>> \o select \o <<W("FROM")>> \o qb.fromClause
        q2 == IF qb.joins # <<>> THEN q1 \o Concat(qb.joins) ELSE q1
        whereClause == BuildersCB_build(qb.conditions, "WHERE")
        q3 == IF whereClause # <<>> THEN q2 \o whereClause ELSE q2
    IN [query |-> q3, params |-> ParamContext_getParams(qb.params)]

----------------------------------------------------------------------------
(* query/ConditionBuilder *)

\* Condition values of a where()/having() object
Scalar(v) == [kind |-> "scalar", op |-> "", shape |-> "scalar", items |-> <<v>>]
Null == [kind |-> "null", op |-> "", shape |-> "null", items |-> <<>>]
\* {op, value}: shape is "scalar", "array", "builders" (an instance of
\* builders/QueryBuilder) or "query" (an instance of query/QueryBuilder)
OpVal(op, shape, items) ==
    [kind |-> "op", op |-> op, shape |-> shape, items |-> items]
Entry(key, condition) == [key |-> key, condition |-> condition]

\* Mutation of allowed: the list lets one more operator through
allowed_withDrop ==
    {"=", ">", "<", ">=", "<=", "!=", "<>", "LIKE", "ILIKE",
     "IN", "NOT IN", "BETWEEN", "EXISTS", "DROP"}

allowed == {"=", ">", "<", ">=", "<=", "!=", "<>", "LIKE", "ILIKE",
            "IN", "NOT IN", "BETWEEN", "EXISTS"}

\* ConditionBuilder.add(expression, type = 'AND')
add(parts, expression, type) ==
    Append(parts, [type |-> type, expression |-> expression])

Ok(parts, params) == [parts |-> parts, params |-> params, err |-> ""]
Throw(parts, params, msg) == [parts |-> parts, params |-> params, err |-> msg]

handleOperator(key, op, value, parts, params) ==
    IF op \notin allowed
    THEN Throw(parts, params, "Invalid operator")
    ELSE IF op \in {"IN", "NOT IN"}
    THEN IF value.shape # "array"
         THEN Throw(parts, params,
                    IF op = "IN" THEN "IN expects array"
                    ELSE "NOT IN expects array")
         ELSE LET m == mapAdd(params, value.items)
                  placeholders ==
                      JoinToks([i \in DOMAIN m.tokens |-> <<m.tokens[i]>>],
                               <<W(",")>>)
              IN Ok(add(parts,
                        <<W(key), W(op), W("(")>> \o placeholders
                            \o <<W(")")>>,
                        "AND"),
                    m.params)
    ELSE IF op = "BETWEEN"
    THEN IF value.shape # "array" \/ Len(value.items) # 2
         THEN Throw(parts, params, "BETWEEN expects [min,max]")
         ELSE LET p1 == ParamContext_add(params, value.items[1])
                  p2 == ParamContext_add(p1.params, value.items[2])
              IN Ok(add(parts,
                        <<W(key), W("BETWEEN"), p1.token, W("AND"),
                          p2.token>>,
                        "AND"),
                    p2.params)
    ELSE IF op = "EXISTS"
    THEN IF value.shape # "builders"
         THEN Throw(parts, params, "EXISTS expects QueryBuilder")
         ELSE LET b == BuildersQB_build(repoQb)
              IN Ok(add(parts,
                        <<W("EXISTS"), W("(")>> \o b.query \o <<W(")")>>,
                        "AND"),
                    addEach(params, b.params))
    ELSE LET a == ParamContext_add(params, value.items[1])
         IN Ok(add(parts, <<W(key), W(op), a.token>>, "AND"), a.params)

\* Mutation of whereEntry: a plain value is printed into the fragment
whereEntry_inline(e, parts, params) ==
    IF e.condition.kind = "null"
    THEN Ok(add(parts, <<W(e.key), W("IS"), W("NULL")>>, "AND"), params)
    ELSE IF e.condition.kind = "op"
    THEN handleOperator(e.key, e.condition.op, e.condition, parts, params)
    ELSE Ok(add(parts, <<W(e.key), W("="), W(e.condition.items[1])>>, "AND"),
            params)

\* The body of the forEach in where(), for one [key, condition] entry
whereEntry(e, parts, params) ==
    IF e.condition.kind = "null"
    THEN Ok(add(parts, <<W(e.key), W("IS"), W("NULL")>>, "AND"), params)
    ELSE IF e.condition.kind = "op"
    THEN handleOperator(e.key, e.condition.op, e.condition, parts, params)
    ELSE LET a == ParamContext_add(params, e.condition.items[1])
         IN Ok(add(parts, <<W(e.key), W("="), a.token>>, "AND"), a.params)

\* where(obj) with an object: entries in order; a throw ends the loop and
\* keeps what the earlier entries did
RECURSIVE ConditionBuilder_where(_, _, _)
ConditionBuilder_where(obj, parts, params) ==
    IF obj = <<>> THEN Ok(parts, params)
    ELSE LET r == whereEntry(Head(obj), parts, params)
         IN IF r.err # "" THEN r
            ELSE ConditionBuilder_where(Tail(obj), r.parts, r.params)

ConditionBuilder_raw(expression, parts) == add(parts, expression, "AND")

RECURSIVE renderParts(_)
renderParts(parts) ==
    IF parts = <<>> THEN <<>>
    ELSE <<W(Head(parts).type)>> \o Head(parts).expression
             \o renderParts(Tail(parts))

\* Mutation of ConditionBuilder_build: the early return for a builder
\* without parts is missing
ConditionBuilder_build_noEarlyReturn(parts, prefix) ==
    <<W(prefix)>>
        \o (IF parts = <<>> THEN <<>>
            ELSE parts[1].expression \o renderParts(Tail(parts)))

\* build(prefix): '' without parts, else prefix, part 0 without connector,
\* every later part behind its connector
ConditionBuilder_build(parts, prefix) ==
    IF parts = <<>> THEN <<>>
    ELSE <<W(prefix)>> \o parts[1].expression \o renderParts(Tail(parts))

\* built.replace(/^WHERE\s/, '')
stripWhere(built) ==
    IF built # <<>> /\ built[1] = W("WHERE") THEN Tail(built) ELSE built

\* A group callback is the sequence of calls it makes on the nested builder:
\* [call |-> "where" | "raw" | "andGroup" | "orGroup", obj, expression, cb]
RECURSIVE runCallback(_, _, _)

\* The tail of andGroup/orGroup once cb(nested) has run: nothing is added
\* when the nested builder built '', else one parenthesised node
closeGroup(nested, parts, type) ==
    IF nested.err # "" THEN Throw(parts, nested.params, nested.err)
    ELSE IF ConditionBuilder_build(nested.parts, "WHERE") = <<>>
    THEN Ok(parts, nested.params)
    ELSE Ok(add(parts,
                <<W("(")>>
                    \o stripWhere(ConditionBuilder_build(nested.parts, "WHERE"))
                    \o <<W(")")>>,
                type),
            nested.params)

andGroup(cb, parts, params) ==
    closeGroup(runCallback(cb, <<>>, params), parts, "AND")

\* Mutation of orGroup: the group is added with the default connector
orGroup_asAnd(cb, parts, params) ==
    closeGroup(runCallback(cb, <<>>, params), parts, "AND")

orGroup(cb, parts, params) ==
    closeGroup(runCallback(cb, <<>>, params), parts, "OR")

\* One call the callback makes on the nested builder
callOne(c, parts, params) ==
    IF c.call = "where" THEN ConditionBuilder_where(c.obj, parts, params)
    ELSE IF c.call = "raw"
    THEN Ok(ConditionBuilder_raw(c.expression, parts), params)
    ELSE IF c.call = "andGroup" THEN andGroup(c.cb, parts, params)
    ELSE orGroup(c.cb, parts, params)

\* The calls after one that returned r: none after a throw
thenCalls(r, rest) ==
    IF r.err # "" THEN r ELSE runCallback(rest, r.parts, r.params)

runCallback(cb, parts, params) ==
    IF cb = <<>> THEN Ok(parts, params)
    ELSE thenCalls(callOne(Head(cb), parts, params), Tail(cb))

ConditionBuilder_clone(parts) == [i \in DOMAIN parts |-> parts[i]]

----------------------------------------------------------------------------
(* query/QueryBuilder *)

\* A numeric literal printed into the text (LIMIT n, OFFSET n)
Num(n) == [t |-> "#", n |-> n, v |-> ""]

\* new QueryBuilder(table, executor, dialect, cacheTTL): one fresh
\* ParamContext (heap id ctx) shared by the statement and both condition
\* builders.  limitCount/offsetCount: <<>> is undefined, <<n>> is n.
\* cloneOf is a history field: the statement clone() copied this one from.
QueryBuilder_new(fromClause, ctx) ==
    [fields |-> <<>>, joins |-> <<>>, groupByFields |-> <<>>,
     orderByFields |-> <<>>, limitCount |-> <<>>, offsetCount |-> <<>>,
     ctes |-> <<>>, fromClause |-> fromClause, ctx |-> ctx,
     condition |-> [parts |-> <<>>, ctx |-> ctx],
     havingCondition |-> [parts |-> <<>>, ctx |-> ctx],
     cloneOf |-> 0]

BuildersQB_new(table) ==
    [fields |-> <<>>, joins |-> <<>>, fromClause |-> <<W(table)>>,
     conditions |-> <<>>, params |-> <<>>, limitCount |-> <<>>]

StmtIds == DOMAIN stmts

\* Values of JavaScript that reach select()/groupBy(): a string or a number
\* (str is what String(v) and Array.prototype.join print for it)
Str(x) == [type |-> "string", str |-> x]
Numb(x) == [type |-> "number", str |-> x]
String(v) == v.str
Strings(vs) == [i \in DOMAIN vs |-> String(vs[i])]

\* What with()/fromSubquery() received when it is not a statement
NonStatement == 0

\* Mutation of someRecursive: only the first CTE is looked at
someRecursive_first(ctes) == ctes # <<>> /\ ctes[1].recursive

\* this.ctes.some(c => c.recursive)
someRecursive(ctes) == \E i \in DOMAIN ctes : ctes[i].recursive

\* build() of statement s on the context heap cx: the text, the params it
\* returns and the heap it leaves (build() adds every CTE's params to the
\* statement's own context, and so does the build() of each CTE).  err is
\* the error build() throws: a CTE whose query has no build method makes
\* cte.query.build() a TypeError, after the CTEs before it were flattened.
RECURSIVE QueryBuilder_build(_, _)
RECURSIVE buildCtes(_, _, _)

\* F applied to the value of x, with x evaluated once
WithValue(F(_), x) == CHOOSE r \in {F(v) : v \in {x}} : TRUE

\* `${cte.name} AS (${q})` in front of the parts of the later CTEs
consCte(cte, b, rest) ==
    [parts |-> <<(<<W(cte.name), W("AS"), W("(")>> \o b.query
                     \o <<W(")")>>)>> \o rest.parts,
     cx |-> rest.cx,
     err |-> rest.err]

\* The map callback once cte.query.build() returned b, then the later CTEs
afterCte(cte, b, rest, ctx) ==
    IF b.err # "" THEN [parts |-> <<>>, cx |-> b.cx, err |-> b.err]
    ELSE WithValue(LAMBDA r : consCte(cte, b, r),
                   buildCtes(rest, ctx,
                             [b.cx EXCEPT ![ctx] = addEach(@, b.params)]))

buildCtes(ctes, ctx, cx) ==
    IF ctes = <<>> THEN [parts |-> <<>>, cx |-> cx, err |-> ""]
    ELSE IF Head(ctes).query \notin StmtIds
    THEN [parts |-> <<>>, cx |-> cx, err |-> "TypeError"]
    ELSE WithValue(LAMBDA b : afterCte(Head(ctes), b, Tail(ctes), ctx),
                   QueryBuilder_build(Head(ctes).query, cx))

\* The text and params of statement q once its CTEs gave c
renderQuery(q, c) ==
    LET withClause ==
            IF q.ctes # <<>>
            THEN <<W("WITH")>>
                   \o (IF someRecursive(q.ctes) THEN <<W("RECURSIVE")>>
                       ELSE <<>>)
                   \o JoinToks(c.parts, <<W(",")>>)
            ELSE <<>>
        select == IF q.fields # <<>>
                  THEN JoinToks(Words(q.fields), <<W(",")>>)
                  ELSE <<W("*")>>
        joins == IF q.joins # <<>> THEN Concat(q.joins) ELSE <<>>
        where == ConditionBuilder_build(q.condition.parts, "WHERE")
        groupBy == IF q.groupByFields # <<>>
                   THEN <<W("GROUP"), W("BY")>>
                          \o JoinToks(Words(Strings(q.groupByFields)),
                                      <<W(",")>>)
                   ELSE <<>>
        having == ConditionBuilder_build(q.havingCondition.parts, "HAVING")
        orderBy == IF q.orderByFields # <<>>
                   THEN <<W("ORDER"), W("BY")>>
                          \o JoinToks(q.orderByFields, <<W(",")>>)
                   ELSE <<>>
        limit == IF q.limitCount # <<>> /\ q.limitCount[1] # 0
                 THEN <<W("LIMIT"), Num(q.limitCount[1])>> ELSE <<>>
        offset == IF q.offsetCount # <<>> /\ q.offsetCount[1] # 0
                  THEN <<W("OFFSET"), Num(q.offsetCount[1])>> ELSE <<>>
    IN IF c.err # ""
       THEN [query |-> <<>>, params |-> <<>>, cx |-> c.cx, err |-> c.err]
       ELSE [query |-> withClause \o <<W("SELECT")>> \o select
                          \o <<W("FROM")>> \o q.fromClause \o joins
                          \o where \o groupBy \o having \o orderBy
                          \o limit \o offset,
             params |-> ParamContext_getParams(c.cx[q.ctx]),
             cx |-> c.cx,
             err |-> ""]

QueryBuilder_build(s, cx) ==
    WithValue(LAMBDA c : renderQuery(stmts[s], c),
              buildCtes(stmts[s].ctes, stmts[s].ctx, cx))

\* What build() of s returns in the current state
BuildOut(s) ==
    LET b == QueryBuilder_build(s, ctxs)
    IN [query |-> b.query, params |-> b.params, err |-> b.err]

\* s reaches t through CTE references (build() of s calls build() of t)
RECURSIVE Reaches(_, _, _)
Reaches(s, t, fuel) ==
    \/ s = t
    \/ /\ fuel > 0
       /\ \E i \in DOMAIN stmts[s].ctes :
              /\ stmts[s].ctes[i].query \in StmtIds
              /\ Reaches(stmts[s].ctes[i].query, t, fuel - 1)

----------------------------------------------------------------------------
(* Outcome of a call *)

NoCall == [kind |-> "none", err |-> "", query |-> <<>>, params |-> <<>>]
Returned == [kind |-> "return", err |-> "", query |-> <<>>, params |-> <<>>]
Thrown(msg) == [kind |-> "throw", err |-> msg, query |-> <<>>, params |-> <<>>]
Built(b) ==
    [kind |-> "build", err |-> "", query |-> b.query, params |-> b.params]
\* build() returns, or throws what the build() of a CTE threw
BuildOutcome(b) == IF b.err # "" THEN Thrown(b.err) ELSE Built(b)
Outcome(r) == IF r.err = "" THEN Returned ELSE Thrown(r.err)

Spend == budget > 0 /\ budget' = budget - 1

----------------------------------------------------------------------------
(* Calls on a query/QueryBuilder *)

\* where(obj) -> this.condition.where(obj)
Where(s, obj) ==
    /\ Spend
    /\ LET cb == stmts[s].condition
           r == ConditionBuilder_where(obj, cb.parts, ctxs[cb.ctx])
       IN /\ stmts' = [stmts EXCEPT ![s].condition.parts = r.parts]
          /\ ctxs' = [ctxs EXCEPT ![cb.ctx] = r.params]
          /\ ret' = Outcome(r)
    /\ UNCHANGED <<cbVars, trxVars, uowVars, views, dialect, repoQb>>

\* having(obj) -> this.havingCondition.where(obj)
Having(s, obj) ==
    /\ Spend
    /\ LET cb == stmts[s].havingCondition
           r == ConditionBuilder_where(obj, cb.parts, ctxs[cb.ctx])
       IN /\ stmts' = [stmts EXCEPT ![s].havingCondition.parts = r.parts]
          /\ ctxs' = [ctxs EXCEPT ![cb.ctx] = r.params]
          /\ ret' = Outcome(r)
    /\ UNCHANGED <<cbVars, trxVars, uowVars, views, dialect, repoQb>>

WhereRaw(s, expression) ==
    /\ Spend
    /\ stmts' = [stmts EXCEPT ![s].condition.parts =
                     ConditionBuilder_raw(expression, @)]
    /\ ret' = Returned
    /\ UNCHANGED <<cbVars, trxVars, uowVars, views, dialect, ctxs, repoQb>>

HavingRaw(s, expr) ==
    /\ Spend
    /\ stmts' = [stmts EXCEPT ![s].havingCondition.parts =
                     ConditionBuilder_raw(expr, @)]
    /\ ret' = Returned
    /\ UNCHANGED <<cbVars, trxVars, uowVars, views, dialect, ctxs, repoQb>>

AndGroup(s, cb) ==
    /\ Spend
    /\ LET c == stmts[s].condition
           r == andGroup(cb, c.parts, ctxs[c.ctx])
       IN /\ stmts' = [stmts EXCEPT ![s].condition.parts = r.parts]
          /\ ctxs' = [ctxs EXCEPT ![c.ctx] = r.params]
          /\ ret' = Outcome(r)
    /\ UNCHANGED <<cbVars, trxVars, uowVars, views, dialect, repoQb>>

OrGroup(s, cb) ==
    /\ Spend
    /\ LET c == stmts[s].condition
           r == orGroup(cb, c.parts, ctxs[c.ctx])
       IN /\ stmts' = [stmts EXCEPT ![s].condition.parts = r.parts]
          /\ ctxs' = [ctxs EXCEPT ![c.ctx] = r.params]
          /\ ret' = Outcome(r)
    /\ UNCHANGED <<cbVars, trxVars, uowVars, views, dialect, repoQb>>

\* Arguments of select()/groupBy(): an array of values, one value, or
\* nothing (undefined)
JsArray(items) == [kind |-> "array", items |-> items]
JsValue(v) == [kind |-> "value", items |-> <<v>>]
Undefined == [kind |-> "undefined", items |-> <<>>]

\* select(fields): throws on a falsy argument, else stores
\* normalized.map(String) in the place of the previous list
Select(s, fields) ==
    /\ Spend
    /\ IF fields.kind = "undefined"
       THEN /\ ret' = Thrown("fields on select must be a string")
            /\ UNCHANGED stmts
       ELSE /\ stmts' = [stmts EXCEPT ![s].fields = Strings(fields.items)]
            /\ ret' = Returned
    /\ UNCHANGED <<cbVars, trxVars, uowVars, views, dialect, ctxs, repoQb>>

\* Mutation of addJoin: the join is put in front of the earlier ones
addJoin_unshift(joins, type, table, localKey, foreignKey) ==
    <<(<<W(type), W("JOIN"), W(table), W("ON"), W(localKey), W("="),
         W(foreignKey)>>)>> \o joins

\* this.joins.push(`${type} JOIN ${table} ON ${localKey} = ${foreignKey}`)
addJoin(joins, type, table, localKey, foreignKey) ==
    Append(joins, <<W(type), W("JOIN"), W(table), W("ON"), W(localKey),
                    W("="), W(foreignKey)>>)

Join(s, table, localKey, foreignKey) ==
    /\ Spend
    /\ stmts' = [stmts EXCEPT ![s].joins =
                     addJoin(@, "INNER", table, localKey, foreignKey)]
    /\ ret' = Returned
    /\ UNCHANGED <<cbVars, trxVars, uowVars, views, dialect, ctxs, repoQb>>

LeftJoin(s, table, localKey, foreignKey) ==
    /\ Spend
    /\ stmts' = [stmts EXCEPT ![s].joins =
                     addJoin(@, "LEFT", table, localKey, foreignKey)]
    /\ ret' = Returned
    /\ UNCHANGED <<cbVars, trxVars, uowVars, views, dialect, ctxs, repoQb>>

\* groupBy(fields): push(...fields) for an array, push(fields) otherwise
GroupBy(s, fields) ==
    /\ Spend
    /\ stmts' = [stmts EXCEPT ![s].groupByFields = @ \o fields.items]
    /\ ret' = Returned
    /\ UNCHANGED <<cbVars, trxVars, uowVars, views, dialect, ctxs, repoQb>>

\* orderBy(column, direction)
OrderBy(s, column, direction) ==
    /\ Spend
    /\ stmts' = [stmts EXCEPT ![s].orderByFields =
                     Append(@, <<W(column), W(direction)>>)]
    /\ ret' = Returned
    /\ UNCHANGED <<cbVars, trxVars, uowVars, views, dialect, ctxs, repoQb>>

Limit(s, value) ==
    /\ Spend
    /\ stmts' = [stmts EXCEPT ![s].limitCount = <<value>>]
    /\ ret' = Returned
    /\ UNCHANGED <<cbVars, trxVars, uowVars, views, dialect, ctxs, repoQb>>

Offset(s, value) ==
    /\ Spend
    /\ stmts' = [stmts EXCEPT ![s].offsetCount = <<value>>]
    /\ ret' = Returned
    /\ UNCHANGED <<cbVars, trxVars, uowVars, views, dialect, ctxs, repoQb>>

\* with(name, subQuery, recursive): keeps a reference to subQuery.
\* A statement that reaches itself through its CTEs makes build() recurse
\* without end; such calls are left out.
With(s, name, subQuery, recursive) ==
    /\ Spend
    /\ subQuery \in StmtIds => ~Reaches(subQuery, s, Len(stmts))
    /\ stmts' = [stmts EXCEPT ![s].ctes =
                     Append(@, [name |-> name, query |-> subQuery,
                                recursive |-> recursive])]
    /\ ret' = Returned
    /\ UNCHANGED <<cbVars, trxVars, uowVars, views, dialect, ctxs, repoQb>>

\* fromSubquery(sub, alias): builds sub now and keeps its text.  A sub
\* without a build method makes sub.build() a TypeError; a throw of
\* sub.build() leaves the statement as it was.
FromSubquery(s, sub, alias) ==
    /\ Spend
    /\ IF sub \notin StmtIds
       THEN /\ ret' = Thrown("TypeError")
            /\ UNCHANGED <<stmts, ctxs>>
       ELSE LET b == QueryBuilder_build(sub, ctxs)
                ctx == stmts[s].ctx
            IN IF b.err # ""
               THEN /\ ret' = Thrown(b.err)
                    /\ ctxs' = b.cx
                    /\ UNCHANGED stmts
               ELSE /\ ctxs' = [b.cx EXCEPT ![ctx] = addEach(@, b.params)]
                    /\ stmts' = [stmts EXCEPT ![s].fromClause =
                                     <<W("(")>> \o b.query
                                         \o <<W(")"), W("AS"), W(alias)>>]
                    /\ ret' = Returned
    /\ UNCHANGED <<cbVars, trxVars, uowVars, views, dialect, repoQb>>

\* clone() of src/query/ConditionBuilder.ts:570-590: the lists are copied,
\* the two condition builders are cloned (each clone keeps the ParamContext
\* of the builder it was cloned from) and the statement's own context is
\* replaced by a clone of the original's
Clone(s) ==
    /\ Spend
    /\ Len(stmts) < MaxStmts
    /\ LET q == stmts[s]
           newCtx == Len(ctxs) + 1
           qb == [QueryBuilder_new(q.fromClause, newCtx) EXCEPT
                     !.fields = q.fields,
                     !.joins = q.joins,
                     !.groupByFields = q.groupByFields,
                     !.orderByFields = q.orderByFields,
                     !.limitCount = q.limitCount,
                     !.offsetCount = q.offsetCount,
                     !.ctes = q.ctes,
                     !.condition =
                         [parts |-> ConditionBuilder_clone(q.condition.parts),
                          ctx |-> q.condition.ctx],
                     !.havingCondition =
                         [parts |->
                              ConditionBuilder_clone(q.havingCondition.parts),
                          ctx |-> q.havingCondition.ctx],
                     !.cloneOf = s]
       IN /\ stmts' = Append(stmts, qb)
          /\ ctxs' = Append(ctxs, ParamContext_clone(ctxs[q.ctx]))
    /\ ret' = Returned
    /\ UNCHANGED <<cbVars, trxVars, uowVars, views, dialect, repoQb>>

\* clone() of src/query/QueryBuilder.ts:126-143: only the lists are copied;
\* the clone keeps the fresh context and the empty condition builders its
\* constructor made
CloneLists(s) ==
    /\ Spend
    /\ Len(stmts) < MaxStmts
    /\ LET q == stmts[s]
           newCtx == Len(ctxs) + 1
           qb == [QueryBuilder_new(q.fromClause, newCtx) EXCEPT
                     !.fields = q.fields,
                     !.joins = q.joins,
                     !.groupByFields = q.groupByFields,
                     !.orderByFields = q.orderByFields,
                     !.limitCount = q.limitCount,
                     !.offsetCount = q.offsetCount,
                     !.ctes = q.ctes,
                     !.cloneOf = s]
       IN /\ stmts' = Append(stmts, qb)
          /\ ctxs' = Append(ctxs, <<>>)
    /\ ret' = Returned
    /\ UNCHANGED <<cbVars, trxVars, uowVars, views, dialect, repoQb>>

\* build(): returns the text and the params, and leaves in the contexts what
\* the flattening of the CTEs added
Build(s) ==
    /\ Spend
    /\ LET b == QueryBuilder_build(s, ctxs)
       IN /\ ctxs' = b.cx
          /\ ret' = BuildOutcome(b)
    /\ UNCHANGED <<cbVars, trxVars, uowVars, views, dialect, stmts, repoQb>>

----------------------------------------------------------------------------
(* Calls on the builders/QueryBuilder of Repository.qb() *)

RepoWhere(obj) ==
    /\ Spend
    /\ LET r == BuildersCB_where(obj, repoQb.conditions, repoQb.params)
       IN repoQb' = [repoQb EXCEPT !.conditions = r.conditions,
                                   !.params = r.params]
    /\ ret' = Returned
    /\ UNCHANGED <<cbVars, trxVars, uowVars, views, dialect, stmts, ctxs>>

RepoBuild ==
    /\ Spend
    /\ ret' = Built(BuildersQB_build(repoQb))
    /\ UNCHANGED <<cbVars, trxVars, uowVars, views, dialect, stmts, ctxs, repoQb>>

----------------------------------------------------------------------------
(* Inputs *)

ObjXY == <<Entry("x", Scalar("10")), Entry("y", Scalar("20"))>>
ObjA == <<Entry("a", Scalar("30"))>>
ObjNull == <<Entry("x", Null)>>

CallWhere(obj) == [call |-> "where", obj |-> obj, expression |-> <<>>,
                   cb |-> <<>>]
CallRaw(expression) == [call |-> "raw", obj |-> <<>>,
                        expression |-> expression, cb |-> <<>>]
CallGroup(call, cb) == [call |-> call, obj |-> <<>>, expression |-> <<>>,
                        cb |-> cb]

Objs == {ObjXY, ObjA}
HavingObjs == {ObjA}
Callbacks == {<<CallWhere(ObjA)>>}

----------------------------------------------------------------------------
(* Statements: two statements from Database.table(), one builder from     *)
(* Repository.qb(), no call made yet                                       *)

\* No ConditionBuilder was made on its own
NoBuilder == builders = <<>> /\ nodeLists = <<>>

\* No transaction was started and nothing was registered for persistence
NoTransaction ==
    /\ versions = [manager |-> "single", executor |-> "connectionString"]
    /\ trxs = <<>>
    /\ clients = <<>>
    /\ poolLog = <<>>

NoUnitOfWork ==
    /\ uow = [newEntities |-> 1, dirtyEntities |-> 2, removedEntities |-> 3]
    /\ arrays = <<<<>>, <<>>, <<>>>>
    /\ commits = <<>>
    /\ repoLog = <<>>

Constructed ==
    /\ NoBuilder
    /\ NoTransaction
    /\ NoUnitOfWork
    /\ dialect \in {"pg", "mysql"}
    /\ stmts = <<QueryBuilder_new(<<W("p")>>, 1),
                 QueryBuilder_new(<<W("t")>>, 2)>>
    /\ ctxs = <<<<>>, <<>>>>
    /\ repoQb = BuildersQB_new("r")
    /\ ret = NoCall
    /\ views = <<>>

\* The statements handed to with()/fromSubquery() of s: the later ones
Subs(s) == {sub \in StmtIds : sub > s}

Init == Constructed /\ budget = MaxOps

Next ==
    \/ \E s \in StmtIds, obj \in Objs : Where(s, obj)
    \/ \E s \in StmtIds, obj \in HavingObjs : Having(s, obj)
    \/ \E s \in StmtIds, cb \in Callbacks : AndGroup(s, cb)
    \/ \E s \in StmtIds, cb \in Callbacks : OrGroup(s, cb)
    \/ \E s \in StmtIds : \E sub \in Subs(s) : With(s, "c", sub, FALSE)
    \/ \E s \in StmtIds : \E sub \in Subs(s) : FromSubquery(s, sub, "s")
    \/ \E s \in StmtIds : Clone(s)
    \/ \E s \in StmtIds : CloneLists(s)
    \/ \E s \in StmtIds : Build(s)

Spec == Init /\ [][Next]_vars

----------------------------------------------------------------------------
(* One statement's WHERE/HAVING builders with the whole operator           *)
(* repertoire, raw fragments and nested groups, next to the builder of     *)
(* Repository.qb()                                                         *)

\* Nesting depth of the group callbacks below the top-level group
MaxDepth == 1

LevelKeys == <<"c", "b", "d", "e">>
LevelVals == <<"3", "2", "4", "5">>
LevelObj(d) == <<Entry(LevelKeys[d + 1], Scalar(LevelVals[d + 1]))>>

Groups == {"andGroup", "orGroup"}

\* Callbacks that nest groups up to depth d: nothing, one condition, one
\* condition followed by a group, an empty group alone
RECURSIVE CbSet(_)
CbSet(d) ==
    LET own == CallWhere(LevelObj(d))
    IN {<<>>, <<own>>}
         \cup (IF d = 0 THEN {}
               ELSE {<<own, CallGroup(g, c)>> : g \in Groups, c \in CbSet(d - 1)}
                      \cup {<<CallGroup(g, <<>>)>> : g \in Groups})

CondCallbacks == UNION {CbSet(d) : d \in 0..MaxDepth}

ObjA1 == <<Entry("a", Scalar("1"))>>
ObjGt == <<Entry("a", OpVal(">", "scalar", <<"1">>))>>
ObjIn == <<Entry("a", OpVal("IN", "array", <<"1", "2">>))>>
ObjBetween == <<Entry("a", OpVal("BETWEEN", "array", <<"1", "2">>))>>
ObjExists == <<Entry("e", OpVal("EXISTS", "builders", <<>>))>>
\* Condition objects the code rejects
ObjDrop == <<Entry("a", OpVal("DROP", "scalar", <<"1">>))>>
ObjInScalar == <<Entry("a", OpVal("IN", "scalar", <<"5">>))>>
ObjNotInScalar == <<Entry("a", OpVal("NOT IN", "scalar", <<"5">>))>>
ObjBetweenOne == <<Entry("a", OpVal("BETWEEN", "array", <<"1">>))>>
ObjBetweenScalar == <<Entry("a", OpVal("BETWEEN", "scalar", <<"5">>))>>
ObjExistsTable == <<Entry("e", OpVal("EXISTS", "query", <<>>))>>
ObjExistsScalar == <<Entry("e", OpVal("EXISTS", "scalar", <<"5">>))>>
ObjThenDrop == <<Entry("a", Scalar("1")),
                 Entry("b", OpVal("DROP", "scalar", <<"2">>))>>

GoodObjs == {ObjA1, ObjNull, ObjGt, ObjIn, ObjBetween, ObjExists}
BadObjs == {ObjDrop, ObjInScalar, ObjNotInScalar, ObjBetweenOne,
            ObjBetweenScalar, ObjExistsTable, ObjExistsScalar, ObjThenDrop}
CondObjs == GoodObjs \cup BadObjs
CondHavingObjs == {ObjA1, ObjIn, ObjDrop, ObjNotInScalar, ObjBetweenOne}

RawExprs == {<<W("active")>>}
RepoObjs == {<<Entry("id", Scalar("7"))>>, ObjNull}

InitCond == Constructed /\ budget = MaxCondOps

NextCond ==
    \/ \E obj \in CondObjs : Where(1, obj)
    \/ \E obj \in CondHavingObjs : Having(1, obj)
    \/ \E e \in RawExprs : WhereRaw(1, e)
    \/ \E e \in RawExprs : HavingRaw(1, e)
    \/ \E cb \in CondCallbacks : AndGroup(1, cb)
    \/ \E cb \in CondCallbacks : OrGroup(1, cb)
    \/ \E obj \in RepoObjs : RepoWhere(obj)
    \/ Build(1)
    \/ RepoBuild

SpecCond == InitCond /\ [][NextCond]_vars

----------------------------------------------------------------------------
(* The calls of Next, explored for the comparison of the two dialects      *)

\* Number of builder calls explored in a run of SpecDialect.
MaxDialectOps == 3

InitDialect == Constructed /\ budget = MaxDialectOps

SpecDialect == InitDialect /\ [][Next]_vars

----------------------------------------------------------------------------
(* The calls of NextCond, explored for the comparison of two runs that     *)
(* bind different values                                                   *)

\* Number of builder calls explored in a run of SpecValues.
MaxValueOps == 2

InitValues == Constructed /\ budget = MaxValueOps

SpecValues == InitValues /\ [][NextCond]_vars

----------------------------------------------------------------------------
(* The ConditionBuilder the package entry point exports                    *)
(* (builders/ConditionBuilder), as the builder of Repository.qb() holds    *)
(* it: where(), andGroup(), orGroup() and build()                          *)

\* Number of calls explored in a run of SpecBuilders.
MaxBuildersOps == 3

BuildersAndGroup(cb) ==
    /\ Spend
    /\ LET r == BuildersCB_andGroup(cb, repoQb.conditions, repoQb.params)
       IN repoQb' = [repoQb EXCEPT !.conditions = r.conditions,
                                   !.params = r.params]
    /\ ret' = Returned
    /\ UNCHANGED <<cbVars, trxVars, uowVars, views, dialect, stmts, ctxs>>

BuildersOrGroup(cb) ==
    /\ Spend
    /\ LET r == BuildersCB_orGroup(cb, repoQb.conditions, repoQb.params)
       IN repoQb' = [repoQb EXCEPT !.conditions = r.conditions,
                                   !.params = r.params]
    /\ ret' = Returned
    /\ UNCHANGED <<cbVars, trxVars, uowVars, views, dialect, stmts, ctxs>>

\* condition.build(): the WHERE string alone
BuildersBuild ==
    /\ Spend
    /\ ret' = [kind |-> "build", err |-> "",
               query |-> BuildersCB_build(repoQb.conditions, "WHERE"),
               params |-> ParamContext_getParams(repoQb.params)]
    /\ UNCHANGED <<cbVars, trxVars, uowVars, views, dialect, stmts, ctxs,
                   repoQb>>

BuildersObjs == {ObjA1}
BuildersCallbacks == CbSet(1)

InitBuilders == Constructed /\ budget = MaxBuildersOps

NextBuilders ==
    \/ \E obj \in BuildersObjs : RepoWhere(obj)
    \/ \E cb \in BuildersCallbacks : BuildersAndGroup(cb)
    \/ \E cb \in BuildersCallbacks : BuildersOrGroup(cb)
    \/ BuildersBuild

SpecBuilders == InitBuilders /\ [][NextBuilders]_vars

----------------------------------------------------------------------------
(* ParamContext on its own: contexts made by the constructor and by        *)
(* clone(), the arrays getParams() hands out, and a caller that tries to   *)
(* push on such an array                                                   *)

\* Number of calls explored in a run of SpecCtx.
MaxCtxOps == 4
\* Number of ParamContext objects that can exist.
MaxCtxs == 3
\* Number of arrays from getParams() the caller keeps.
MaxViews == 2

CtxValues == {"1", "2"}

ReturnedToken(tok) ==
    [kind |-> "return", err |-> "", query |-> <<tok>>, params |-> <<>>]

\* ctx.add(value)
CtxAdd(c, value) ==
    /\ Spend
    /\ LET a == ParamContext_add(ctxs[c], value)
       IN /\ ctxs' = [ctxs EXCEPT ![c] = a.params]
          /\ ret' = ReturnedToken(a.token)
    /\ UNCHANGED <<cbVars, trxVars, uowVars, views, dialect, stmts, repoQb>>

\* ctx.getParams(): the caller keeps the array
CtxGetParams(c) ==
    /\ Spend
    /\ Len(views) < MaxViews
    /\ views' = Append(views, getParamsView(c))
    /\ ret' = Returned
    /\ UNCHANGED <<cbVars, trxVars, uowVars, dialect, stmts, ctxs, repoQb>>

\* ctx.clone()
CtxClone(c) ==
    /\ Spend
    /\ Len(ctxs) < MaxCtxs
    /\ ctxs' = Append(ctxs, ParamContext_clone(ctxs[c]))
    /\ ret' = Returned
    /\ UNCHANGED <<cbVars, trxVars, uowVars, views, dialect, stmts, repoQb>>

\* The caller calls push(value) on an array it got from getParams(): a
\* frozen array throws a TypeError and stays as it is
ViewPush(v, value) ==
    /\ Spend
    /\ IF views[v].frozen
       THEN /\ ret' = Thrown("TypeError")
            /\ UNCHANGED <<ctxs, views>>
       ELSE IF views[v].ref # 0
       THEN /\ ctxs' = [ctxs EXCEPT ![views[v].ref] = Append(@, value)]
            /\ ret' = Returned
            /\ UNCHANGED views
       ELSE /\ views' = [views EXCEPT ![v].vals = Append(@, value)]
            /\ ret' = Returned
            /\ UNCHANGED ctxs
    /\ UNCHANGED <<cbVars, trxVars, uowVars, dialect, stmts, repoQb>>

\* One context from new ParamContext(dialect), no statement
InitCtx ==
    /\ NoBuilder
    /\ NoTransaction
    /\ NoUnitOfWork
    /\ dialect \in {"pg", "mysql"}
    /\ stmts = <<>>
    /\ ctxs = <<<<>>>>
    /\ repoQb = BuildersQB_new("r")
    /\ ret = NoCall
    /\ views = <<>>
    /\ budget = MaxCtxOps

NextCtx ==
    \/ \E c \in DOMAIN ctxs, value \in CtxValues : CtxAdd(c, value)
    \/ \E c \in DOMAIN ctxs : CtxGetParams(c)
    \/ \E c \in DOMAIN ctxs : CtxClone(c)
    \/ \E v \in DOMAIN views, value \in CtxValues : ViewPush(v, value)

SpecCtx == InitCtx /\ [][NextCtx]_vars

----------------------------------------------------------------------------
(* One statement and every clause it can carry: select list, joins,        *)
(* conditions, grouping, ordering, LIMIT/OFFSET, CTEs and a FROM subquery, *)
(* with well-formed and malformed arguments                                *)

\* Number of builder calls explored in a run of SpecClauses.
MaxClauseOps == 5

SelectInputs ==
    {JsArray(<<Str("id"), Str("name")>>), JsArray(<<>>),
     JsArray(<<Str("id"), Numb("42")>>), Undefined}
GroupByInputs == {JsValue(Str("g")), JsArray(<<Str("h"), Numb("7")>>)}
OrderInputs == {<<"name", "ASC">>, <<"age", "DESC">>}
LimitValues == {0, 10}
OffsetValues == {0, 5}
CteInputs ==
    {[name |-> "c", query |-> 2, recursive |-> FALSE],
     [name |-> "d", query |-> 2, recursive |-> TRUE],
     [name |-> "x", query |-> NonStatement, recursive |-> FALSE]}
FromInputs == {2, NonStatement}
ClauseObjs == {ObjA, ObjExistsScalar}

InitClauses == Constructed /\ budget = MaxClauseOps

NextClauses ==
    \/ \E fields \in SelectInputs : Select(1, fields)
    \/ Join(1, "j", "p.id", "j.pid")
    \/ LeftJoin(1, "k", "p.id", "k.pid")
    \/ \E obj \in ClauseObjs : Where(1, obj)
    \/ \E fields \in GroupByInputs : GroupBy(1, fields)
    \/ Having(1, ObjA)
    \/ \E o \in OrderInputs : OrderBy(1, o[1], o[2])
    \/ \E value \in LimitValues : Limit(1, value)
    \/ \E value \in OffsetValues : Offset(1, value)
    \/ \E cte \in CteInputs : With(1, cte.name, cte.query, cte.recursive)
    \/ \E sub \in FromInputs : FromSubquery(1, sub, "s")
    \/ Build(1)

SpecClauses == InitClauses /\ [][NextClauses]_vars

----------------------------------------------------------------------------
(* ConditionBuilder objects on one ParamContext and their clone(): the     *)
(* parts array of a builder is an object of the heap nodeLists, so that    *)
(* two builders can hold the same array or two equal ones                  *)

\* Number of calls explored in a run of SpecClone.
MaxCloneOps == 4
\* Number of ConditionBuilder objects that can exist.
MaxBuilders == 3

\* Mutation of clonedParts: the clone is handed the original's own array
clonedParts_alias(own, fresh) == own

\* cloned.parts = this.parts.map(p => ({...p})): the clone holds the array
\* map() made (fresh), not the one the original holds (own)
clonedParts(own, fresh) == fresh

\* builder.where(obj)
CbWhere(b, obj) ==
    /\ Spend
    /\ LET r == ConditionBuilder_where(obj, nodeLists[builders[b].parts],
                                       ctxs[builders[b].ctx])
       IN /\ nodeLists' = [nodeLists EXCEPT ![builders[b].parts] = r.parts]
          /\ ctxs' = [ctxs EXCEPT ![builders[b].ctx] = r.params]
          /\ ret' = Outcome(r)
    /\ UNCHANGED <<builders, trxVars, uowVars, views, dialect, stmts, repoQb>>

\* builder.clone(): new ConditionBuilder(this.ctx) with the copied parts
CbClone(b) ==
    /\ Spend
    /\ Len(builders) < MaxBuilders
    /\ nodeLists' = Append(nodeLists,
                           ConditionBuilder_clone(nodeLists[builders[b].parts]))
    /\ builders' = Append(builders,
                          [parts |-> clonedParts(builders[b].parts,
                                                 Len(nodeLists) + 1),
                           ctx |-> builders[b].ctx])
    /\ ret' = Returned
    /\ UNCHANGED <<trxVars, uowVars, views, dialect, stmts, ctxs, repoQb>>

\* builder.build(): the string alone
CbBuild(b) ==
    /\ Spend
    /\ ret' = [kind |-> "build", err |-> "",
               query |-> ConditionBuilder_build(nodeLists[builders[b].parts],
                                                "WHERE"),
               params |-> <<>>]
    /\ UNCHANGED <<cbVars, trxVars, uowVars, views, dialect, stmts, ctxs,
                   repoQb>>

CloneObjs == {ObjA1, ObjIn, ObjThenDrop}

\* One ConditionBuilder made with new ConditionBuilder(ctx)
InitClone ==
    /\ builders = <<[parts |-> 1, ctx |-> 1]>>
    /\ nodeLists = <<<<>>>>
    /\ NoTransaction
    /\ NoUnitOfWork
    /\ dialect \in {"pg", "mysql"}
    /\ stmts = <<>>
    /\ ctxs = <<<<>>>>
    /\ repoQb = BuildersQB_new("r")
    /\ ret = NoCall
    /\ views = <<>>
    /\ budget = MaxCloneOps

NextClone ==
    \/ \E b \in DOMAIN builders, obj \in CloneObjs : CbWhere(b, obj)
    \/ \E b \in DOMAIN builders : CbClone(b)
    \/ \E b \in DOMAIN builders : CbBuild(b)

SpecClone == InitClone /\ [][NextClone]_vars

----------------------------------------------------------------------------
(* QueryExecutor, Database.transaction and TransactionManager.transaction  *)
(*                                                                         *)
(* transaction() is an async function: each action below is one of its     *)
(* continuations, from the settling of the promise it awaits to the next   *)
(* await (or to its end, finally block included).  Several calls can be in *)
(* flight; each has its own client.                                        *)

\* Number of Database.transaction() calls in a run of SpecTrx.
MaxTrx == 2
\* Number of queries a callback sends through the Database it was handed.
MaxCbQueries == 1

builderVars == <<dialect, stmts, ctxs, repoQb, ret, budget, views>>

NoExecutor == [client |-> 0, pool |-> ""]
NoOptions == [defined |-> FALSE, connectionString |-> ""]
Options(connectionString) ==
    [defined |-> TRUE, connectionString |-> connectionString]

\* new QueryExecutor(options, client): the executor, or the error thrown.
\* One version of the constructor wants options.connectionString to be
\* truthy, the other takes any options object.  poolOf names the Pool a
\* constructor call creates.
QueryExecutor_new(options, client, poolOf) ==
    IF client # 0
    THEN [err |-> "", executor |-> [client |-> client, pool |-> ""]]
    ELSE IF versions.executor = "connectionString"
    THEN IF options.defined /\ options.connectionString # ""
         THEN [err |-> "", executor |-> [client |-> 0, pool |-> poolOf]]
         ELSE [err |-> "Invalid QueryExecutor initialization",
               executor |-> NoExecutor]
    ELSE IF options.defined
         THEN [err |-> "", executor |-> [client |-> 0, pool |-> poolOf]]
         ELSE [err |-> "QueryExecutor requires either PoolConfig or PoolClient",
               executor |-> NoExecutor]

\* execute(query): where the query is sent
QueryExecutor_execute(executor) ==
    IF executor.client # 0 THEN "client"
    ELSE IF executor.pool # "" THEN "pool"
    ELSE "throw"

\* new Database(options): executor and the pool of its TransactionManager
Database_new(options, poolOf) ==
    LET e == QueryExecutor_new(options, 0, poolOf)
    IN [err |-> e.err,
        db |-> [executor |-> e.executor, managerPool |-> e.executor.pool]]

\* Mutation of Database_setExecutor: the executor given is not stored
Database_setExecutor_dropped(db, executor) == db

Database_setExecutor(db, executor) == [db EXCEPT !.executor = executor]

\* The arrow function Database.transaction hands to the TransactionManager,
\* up to its call of callback(trxDb)
trxCallback(trxClient) ==
    LET trxExecutor == QueryExecutor_new(NoOptions, trxClient, "")
        trxDb == Database_new(Options(""), "emptyPool")
    IN IF trxExecutor.err # "" THEN [err |-> trxExecutor.err, called |-> FALSE,
                                     trxDb |-> trxDb.db]
       ELSE IF trxDb.err # "" THEN [err |-> trxDb.err, called |-> FALSE,
                                    trxDb |-> trxDb.db]
       ELSE [err |-> "", called |-> TRUE,
             trxDb |-> Database_setExecutor(trxDb.db, trxExecutor.executor)]

\* Mutation of transaction_next: a rejected callback is not caught
transaction_next_uncaught(pc, ok) ==
    CASE pc = "connect" -> IF ok THEN "BEGIN" ELSE "throw connect"
      [] pc = "BEGIN" -> IF ok THEN "callback" ELSE "ROLLBACK"
      [] pc = "callback" -> IF ok THEN "COMMIT" ELSE "throw error"
      [] pc = "COMMIT" -> IF ok THEN "return" ELSE "ROLLBACK"
      [] pc = "ROLLBACK" ->
            IF ok THEN "throw error"
            ELSE IF versions.manager = "retry" THEN "ROLLBACK2"
            ELSE "throw rollback"
      [] pc = "ROLLBACK2" -> IF ok THEN "throw error" ELSE "throw rollback"

\* Where transaction() goes when the promise it awaits at pc settles
\* (ok: resolved).  connect is awaited outside the try; BEGIN, the callback
\* and COMMIT inside it; ROLLBACK in the catch, and, in the version that
\* tries it again, ROLLBACK2 in the catch of the catch.
transaction_next(pc, ok) ==
    CASE pc = "connect" -> IF ok THEN "BEGIN" ELSE "throw connect"
      [] pc = "BEGIN" -> IF ok THEN "callback" ELSE "ROLLBACK"
      [] pc = "callback" -> IF ok THEN "COMMIT" ELSE "ROLLBACK"
      [] pc = "COMMIT" -> IF ok THEN "return" ELSE "ROLLBACK"
      [] pc = "ROLLBACK" ->
            IF ok THEN "throw error"
            ELSE IF versions.manager = "retry" THEN "ROLLBACK2"
            ELSE "throw rollback"
      [] pc = "ROLLBACK2" -> IF ok THEN "throw error" ELSE "throw rollback"

\* Mutation of finallyRelease: the release stands behind the try statement
\* and is skipped when the catch block itself throws
finallyRelease_afterTry(log, next) ==
    IF next = "throw rollback" THEN log ELSE Append(log, "release")

\* finally { client.release() }
finallyRelease(log, next) == Append(log, "release")

Pending == [kind |-> "pending", value |-> ""]
Resolved(v) == [kind |-> "resolved", value |-> v]
Rejected(e) == [kind |-> "rejected", value |-> e]

\* One call of Database.transaction(callback).  cbCalls, cbAt (the length
\* of the client's log when the callback was called), cbError and sent are
\* history fields.
Transaction_new ==
    [pc |-> "connect", client |-> 0, trxDb |-> [executor |-> NoExecutor,
                                               managerPool |-> ""],
     result |-> "", error |-> "", outcome |-> Pending,
     cbCalls |-> 0, cbAt |-> 0, cbError |-> "", sent |-> 0]

\* The continuation goes on to next with the call record tr: a query is
\* sent on the client, or the function ends (finally, then settle)
GoOn(t, tr, next) ==
    LET c == tr.client
    IN IF next \in {"BEGIN", "COMMIT", "ROLLBACK"}
       THEN /\ clients' = [clients EXCEPT ![c] = Append(@, next)]
            /\ trxs' = [trxs EXCEPT ![t] = [tr EXCEPT !.pc = next]]
       ELSE IF next = "ROLLBACK2"
       THEN /\ clients' = [clients EXCEPT ![c] = Append(@, "ROLLBACK")]
            /\ trxs' = [trxs EXCEPT ![t] = [tr EXCEPT !.pc = next]]
       ELSE IF next = "throw connect"
       THEN /\ UNCHANGED clients
            /\ trxs' = [trxs EXCEPT ![t] =
                           [tr EXCEPT !.pc = "done",
                                      !.outcome = Rejected("connect failed")]]
       ELSE /\ clients' = [clients EXCEPT ![c] = finallyRelease(@, next)]
            /\ trxs' = [trxs EXCEPT ![t] =
                           [tr EXCEPT
                               !.pc = "done",
                               !.outcome =
                                   IF next = "return" THEN Resolved(tr.result)
                                   ELSE IF next = "throw error"
                                   THEN Rejected(tr.error)
                                   ELSE Rejected("ROLLBACK failed")]]

\* db.transaction(callback): pool.connect() is called and awaited
Transaction ==
    /\ Len(trxs) < MaxTrx
    /\ trxs' = Append(trxs, Transaction_new)
    /\ UNCHANGED <<builderVars, cbVars, uowVars, versions, clients, poolLog>>

\* pool.connect() settles: a client of its own, then BEGIN is sent
ConnectSettled(t, ok) ==
    /\ trxs[t].pc = "connect"
    /\ IF ok
       THEN /\ clients' = Append(clients, <<"BEGIN">>)
            /\ trxs' = [trxs EXCEPT ![t].pc = transaction_next("connect", ok),
                                    ![t].client = Len(clients) + 1]
       ELSE GoOn(t, trxs[t], transaction_next("connect", ok))
    /\ UNCHANGED <<builderVars, cbVars, uowVars, versions, poolLog>>

\* BEGIN settles: the callback of Database.transaction runs up to the call
\* of the user's callback, or ROLLBACK is sent
BeginSettled(t, ok) ==
    /\ trxs[t].pc = "BEGIN"
    /\ IF ~ok
       THEN GoOn(t, [trxs[t] EXCEPT !.error = "BEGIN failed"],
                 transaction_next("BEGIN", ok))
       ELSE LET w == trxCallback(trxs[t].client)
            IN IF w.called
               THEN /\ trxs' = [trxs EXCEPT
                                   ![t].pc = transaction_next("BEGIN", ok),
                                   ![t].trxDb = w.trxDb,
                                   ![t].cbCalls = @ + 1,
                                   ![t].cbAt = Len(clients[trxs[t].client])]
                    /\ UNCHANGED clients
               ELSE GoOn(t, [trxs[t] EXCEPT !.error = w.err],
                         transaction_next("callback", FALSE))
    /\ UNCHANGED <<builderVars, cbVars, uowVars, versions, poolLog>>

\* Inside the user's callback: trxDb.table(...).execute(), which calls
\* execute() of the executor trxDb holds
CallbackQuery(t) ==
    /\ trxs[t].pc = "callback"
    /\ trxs[t].sent < MaxCbQueries
    /\ LET to == QueryExecutor_execute(trxs[t].trxDb.executor)
       IN /\ clients' = IF to = "client"
                        THEN [clients EXCEPT ![trxs[t].trxDb.executor.client] =
                                  Append(@, "query")]
                        ELSE clients
          /\ poolLog' = IF to = "pool"
                        THEN Append(poolLog, trxs[t].trxDb.executor.pool)
                        ELSE poolLog
    /\ trxs' = [trxs EXCEPT ![t].sent = @ + 1]
    /\ UNCHANGED <<builderVars, cbVars, uowVars, versions>>

\* The user's callback resolves with v: COMMIT is sent
CallbackResolved(t, v) ==
    /\ trxs[t].pc = "callback"
    /\ GoOn(t, [trxs[t] EXCEPT !.result = v],
            transaction_next("callback", TRUE))
    /\ UNCHANGED <<builderVars, cbVars, uowVars, versions, poolLog>>

\* The user's callback rejects with e: the catch block
CallbackRejected(t, e) ==
    /\ trxs[t].pc = "callback"
    /\ GoOn(t, [trxs[t] EXCEPT !.error = e, !.cbError = e],
            transaction_next("callback", FALSE))
    /\ UNCHANGED <<builderVars, cbVars, uowVars, versions, poolLog>>

\* COMMIT settles: return result, or the catch block
CommitSettled(t, ok) ==
    /\ trxs[t].pc = "COMMIT"
    /\ GoOn(t, IF ok THEN trxs[t]
               ELSE [trxs[t] EXCEPT !.error = "COMMIT failed"],
            transaction_next("COMMIT", ok))
    /\ UNCHANGED <<builderVars, cbVars, uowVars, versions, poolLog>>

\* ROLLBACK settles: throw error, or the error of ROLLBACK leaves the catch
\* block (one version), or ROLLBACK is sent once more (the other)
RollbackSettled(t, ok) ==
    /\ trxs[t].pc = "ROLLBACK"
    /\ GoOn(t, trxs[t], transaction_next("ROLLBACK", ok))
    /\ UNCHANGED <<builderVars, cbVars, uowVars, versions, poolLog>>

\* The second ROLLBACK settles
Rollback2Settled(t, ok) ==
    /\ trxs[t].pc = "ROLLBACK2"
    /\ GoOn(t, trxs[t], transaction_next("ROLLBACK2", ok))
    /\ UNCHANGED <<builderVars, cbVars, uowVars, versions, poolLog>>

CbResults == {"v"}
CbErrors == {"E"}

\* A Database on a pool, no transaction started; both versions of the
\* TransactionManager and of the QueryExecutor constructor
InitTrx ==
    /\ versions \in [manager : {"single", "retry"},
                     executor : {"connectionString", "options"}]
    /\ trxs = <<>>
    /\ clients = <<>>
    /\ poolLog = <<>>
    /\ NoBuilder
    /\ NoUnitOfWork
    /\ dialect = "pg"
    /\ stmts = <<>>
    /\ ctxs = <<>>
    /\ repoQb = BuildersQB_new("r")
    /\ ret = NoCall
    /\ views = <<>>
    /\ budget = 0

NextTrx ==
    \/ Transaction
    \/ \E t \in DOMAIN trxs, ok \in BOOLEAN : ConnectSettled(t, ok)
    \/ \E t \in DOMAIN trxs, ok \in BOOLEAN : BeginSettled(t, ok)
    \/ \E t \in DOMAIN trxs : CallbackQuery(t)
    \/ \E t \in DOMAIN trxs, v \in CbResults : CallbackResolved(t, v)
    \/ \E t \in DOMAIN trxs, e \in CbErrors : CallbackRejected(t, e)
    \/ \E t \in DOMAIN trxs, ok \in BOOLEAN : CommitSettled(t, ok)
    \/ \E t \in DOMAIN trxs, ok \in BOOLEAN : RollbackSettled(t, ok)
    \/ \E t \in DOMAIN trxs, ok \in BOOLEAN : Rollback2Settled(t, ok)

SpecTrx == InitTrx /\ [][NextTrx]_vars

----------------------------------------------------------------------------
(* Reading a built text *)

CountPH(sql) == Cardinality({i \in DOMAIN sql : IsPH(sql[i])})

\* The values the placeholders of a text were produced for, left to right
PHValues(sql) ==
    LET phs == SelectSeq(sql, IsPH)
    IN [i \in DOMAIN phs |-> phs[i].v]

\* The tokens of a text that stand outside every pair of parentheses
RECURSIVE TopLevel(_, _)
TopLevel(sql, depth) ==
    IF sql = <<>> THEN <<>>
    ELSE IF Head(sql).t = "(" THEN TopLevel(Tail(sql), depth + 1)
    ELSE IF Head(sql).t = ")" THEN TopLevel(Tail(sql), depth - 1)
    ELSE (IF depth = 0 THEN <<Head(sql)>> ELSE <<>>)
             \o TopLevel(Tail(sql), depth)

HasWord(sql, w) == \E i \in DOMAIN sql : sql[i].t = w

Aligned(s) == Len(BuildOut(s).params) = CountPH(BuildOut(s).query)

----------------------------------------------------------------------------
(* Claims *)

\* C1: for every reachable Statement, the params returned by build() have
\* exactly as many entries as the returned sql has placeholder tokens.
C1_ParamsCountMatchesPlaceholders == \A s \in StmtIds : Aligned(s)

\* C2: with the indexed dialect, every placeholder $k of build().sql,
\* spliced sub-statement text included, denotes params[k-1], and params[k-1]
\* is the value bound for that occurrence.
C2_IndexedPlaceholderDenotesItsValue ==
    (dialect = "pg" /\ \A q \in StmtIds : stmts[q].cloneOf = 0) =>
        \A s \in StmtIds :
            LET b == BuildOut(s)
            IN \A i \in DOMAIN b.query :
                   IsPH(b.query[i]) =>
                       /\ b.query[i].n \in DOMAIN b.params
                       /\ b.params[b.query[i].n] = b.query[i].v

\* A statement that only where()/having() and the group calls have touched:
\* plain table source, no CTE, not a clone and not cloned
OnlyConditions(s) ==
    /\ stmts[s].ctes = <<>>
    /\ Len(stmts[s].fromClause) = 1
    /\ stmts[s].cloneOf = 0
    /\ \A q \in StmtIds : stmts[q].cloneOf # s

\* C3: with the '?' dialect, whatever the order of the where() and having()
\* calls on one Statement, the i-th placeholder of build().sql, read left to
\* right, corresponds to params[i-1].
C3_PositionalOrderMatchesParams ==
    dialect = "mysql" =>
        \A s \in StmtIds :
            OnlyConditions(s) =>
                PHValues(BuildOut(s).query) = BuildOut(s).params

\* C4: build() called twice in a row returns the same sql and the same
\* params: a build() step leaves the result of the next build() equal to
\* the result it returned itself.
C4_BuildIdempotent ==
    [][\A s \in StmtIds :
          Build(s) =>
              /\ Text(BuildOut(s).query)' = Text(BuildOut(s).query)
              /\ BuildOut(s).params' = BuildOut(s).params]_vars

\* C5: a sub-statement binding [10, 20], attached with with(name, sub) to a
\* parent that binds [30] in its WHERE clause, gives the parent
\* build().params = [10, 20, 30].
C5_CteParamsPrecedeWhereParams ==
    \A p \in StmtIds, sub \in StmtIds :
        ( /\ p # sub
          /\ Len(stmts[p].ctes) = 1
          /\ stmts[p].ctes[1].query = sub
          /\ Len(stmts[p].fromClause) = 1
          /\ stmts[p].cloneOf = 0
          /\ stmts[p].havingCondition.parts = <<>>
          /\ PHValues(ConditionBuilder_build(stmts[p].condition.parts,
                                             "WHERE")) = <<"30">>
          /\ ctxs[stmts[p].ctx] = <<"30">>
          /\ BuildOut(sub).params = <<"10", "20">>
          /\ PHValues(BuildOut(sub).query) = <<"10", "20">> )
        => BuildOut(p).params = <<"10", "20", "30">>

ClonePair(s, q) == stmts[q].cloneOf = s \/ stmts[s].cloneOf = q

\* The step is a where/having/group call on s: it adds a condition node to
\* s and changes no other statement
AddsConditionTo(s) ==
    /\ Len(stmts') = Len(stmts)
    /\ \A q \in StmtIds : q # s => stmts'[q] = stmts[q]
    /\ \/ stmts'[s].condition.parts # stmts[s].condition.parts
       \/ stmts'[s].havingCondition.parts # stmts[s].havingCondition.parts

\* C6: after q2 = q.clone(), a where/having/group call on one of the two
\* leaves the other's build() result unchanged, and both still return
\* params aligned with the placeholders of their own sql.
C6_CloneIndependent ==
    [][\A s \in StmtIds, q \in StmtIds :
          ( /\ ClonePair(s, q)
            /\ ~Reaches(q, s, Len(stmts))
            /\ AddsConditionTo(s) )
          => /\ BuildOut(q)' = BuildOut(q)
             /\ Aligned(q)'
             /\ Aligned(s)']_vars

\* The number of nodes a callback leaves in the builder it is handed
RECURSIVE NodesAdded(_)
NodesAdded(cb) ==
    IF cb = <<>> THEN 0
    ELSE (IF Head(cb).call = "where" THEN Len(Head(cb).obj)
          ELSE IF Head(cb).call = "raw" THEN 1
          ELSE IF NodesAdded(Head(cb).cb) > 0 THEN 1 ELSE 0)
         + NodesAdded(Tail(cb))

\* The fragment is one parenthesised group: it opens with "(", and that
\* parenthesis is closed by the last token and not before
RECURSIVE ClosesAt(_, _, _)
ClosesAt(e, i, depth) ==
    IF i > Len(e) THEN 0
    ELSE LET d == IF e[i].t = "(" THEN depth + 1
                  ELSE IF e[i].t = ")" THEN depth - 1 ELSE depth
         IN IF d = 0 THEN i ELSE ClosesAt(e, i + 1, d)

OneGroup(e) == Len(e) >= 3 /\ e[1].t = "(" /\ ClosesAt(e, 1, 0) = Len(e)

\* What a group call with callback cb and connector type did to the WHERE
\* builder of statement 1
GroupEffect(cb, type) ==
    LET old == stmts[1].condition.parts
        new == stmts'[1].condition.parts
        oldP == ctxs[1]
        newP == ctxs'[1]
    IN IF NodesAdded(cb) = 0
       THEN new = old /\ newP = oldP
       ELSE /\ Len(new) = Len(old) + 1
            /\ SubSeq(new, 1, Len(old)) = old
            /\ new[Len(new)].type = type
            /\ OneGroup(new[Len(new)].expression)
            /\ ~HasWord(new[Len(new)].expression, "WHERE")
            /\ Len(newP) >= Len(oldP)
            /\ SubSeq(newP, 1, Len(oldP)) = oldP
            /\ PHValues(new[Len(new)].expression)
                   = SubSeq(newP, Len(oldP) + 1, Len(newP))
            /\ ConditionBuilder_build(new, "WHERE") =
                   IF old = <<>>
                   THEN <<W("WHERE")>> \o new[Len(new)].expression
                   ELSE ConditionBuilder_build(old, "WHERE")
                            \o <<W(type)>> \o new[Len(new)].expression

\* where({a:1}).andGroup(g => g.where({b:2}).orGroup(h => h.where({c:3})))
ExampleCb ==
    <<CallWhere(<<Entry("b", Scalar("2"))>>),
      CallGroup("orGroup", <<CallWhere(<<Entry("c", Scalar("3"))>>)>>)>>

T(w) == [t |-> w, n |-> 0]
P(k) == IF dialect = "pg" THEN [t |-> "$", n |-> k] ELSE [t |-> "?", n |-> 0]

\* WHERE a = ? AND (b = ? OR (c = ?))
ExampleText ==
    <<T("WHERE"), T("a"), T("="), P(1), T("AND"), T("("), T("b"), T("="),
      P(2), T("OR"), T("("), T("c"), T("="), P(3), T(")"), T(")")>>

AfterWhereA1 ==
    /\ Text(ConditionBuilder_build(stmts[1].condition.parts, "WHERE"))
           = <<T("WHERE"), T("a"), T("="), P(1)>>
    /\ ctxs[1] = <<"1">>

\* C7: andGroup/orGroup append the nested builder as one parenthesised node
\* joined by AND (andGroup) or OR (orGroup), at every nesting depth, with the
\* parameters registered in text order; the example renders
\* WHERE a = ? AND (b = ? OR (c = ?)) with params [1, 2, 3]; a callback that
\* adds no condition appends no node.
C7_NestedGroups ==
    [][\A cb \in CondCallbacks :
          /\ AndGroup(1, cb) => GroupEffect(cb, "AND")
          /\ OrGroup(1, cb) => GroupEffect(cb, "OR")
          /\ (AfterWhereA1 /\ cb = ExampleCb /\ AndGroup(1, cb)) =>
                 /\ Text(ConditionBuilder_build(stmts[1].condition.parts,
                                                "WHERE"))' = ExampleText
                 /\ ctxs'[1] = <<"1", "2", "3">>]_vars

C7_Witness ==
    /\ Text(ConditionBuilder_build(stmts[1].condition.parts, "WHERE"))
           = ExampleText
    /\ ctxs[1] = <<"1", "2", "3">>
    /\ ret.kind = "return"

\* The operators of the allow-list, as the claim lists them
ListedOps == {"=", ">", "<", ">=", "<=", "!=", "<>", "LIKE", "ILIKE", "IN",
              "NOT IN", "BETWEEN", "EXISTS"}

\* An entry the claim says must be rejected
MustReject(e) ==
    /\ e.condition.kind = "op"
    /\ \/ e.condition.op \notin ListedOps
       \/ e.condition.op \in {"IN", "NOT IN"} /\ e.condition.shape # "array"
       \/ /\ e.condition.op = "BETWEEN"
          /\ ~(e.condition.shape = "array" /\ Len(e.condition.items) = 2)

FirstRejected(obj) ==
    IF \E i \in DOMAIN obj : MustReject(obj[i])
    THEN CHOOSE i \in DOMAIN obj :
             MustReject(obj[i]) /\ \A j \in 1..(i - 1) : ~MustReject(obj[j])
    ELSE 0

\* The call threw, and the nodes it appended to the builder are those of the
\* entries before the rejected one
RejectedBy(obj, old, new) ==
    LET k == FirstRejected(obj)
    IN k > 0 =>
           /\ ret'.kind = "throw"
           /\ Len(new) = Len(old) + (k - 1)
           /\ SubSeq(new, 1, Len(old)) = old
           /\ \A i \in 1..(k - 1) :
                  new[Len(old) + i].expression[1] = W(obj[i].key)
           /\ \A i \in DOMAIN new :
                  \A j \in DOMAIN new[i].expression :
                      new[i].expression[j].t # obj[k].condition.op
                          \/ obj[k].condition.op \in ListedOps

\* C8: a condition {op, value} whose op is outside the allow-list, an IN or
\* NOT IN with a non-array value and a BETWEEN with anything but a 2-element
\* array make where()/having() throw, and no fragment is produced for them.
C8_OperatorValidation ==
    [][\A obj \in CondObjs :
          /\ Where(1, obj) =>
                 RejectedBy(obj, stmts[1].condition.parts,
                            stmts'[1].condition.parts)
          /\ Having(1, obj) =>
                 RejectedBy(obj, stmts[1].havingCondition.parts,
                            stmts'[1].havingCondition.parts)]_vars

C8_Witness ==
    /\ ret.kind = "throw"
    /\ ret.err = "Invalid operator"
    /\ Len(stmts[1].condition.parts) = 2
    /\ stmts[1].condition.parts[2].expression[1] = W("a")

NullNode == <<W("x"), W("IS"), W("NULL")>>

\* C9: on the builders of Database.table() and of Repository.qb() alike,
\* where({x: null}) appends the fragment x IS NULL and registers no
\* parameter.
C9_NullRendersIsNull ==
    [][/\ Where(1, ObjNull) =>
              /\ stmts'[1].condition.parts =
                     Append(stmts[1].condition.parts,
                            [type |-> "AND", expression |-> NullNode])
              /\ ctxs' = ctxs
       /\ RepoWhere(ObjNull) =>
              /\ repoQb'.conditions = Append(repoQb.conditions, NullNode)
              /\ repoQb'.params = repoQb.params]_vars

BuildsEmptyExactlyWithoutNodes(s) ==
    /\ ConditionBuilder_build(stmts[s].condition.parts, "WHERE") = <<>>
           <=> stmts[s].condition.parts = <<>>
    /\ ConditionBuilder_build(stmts[s].havingCondition.parts, "HAVING") = <<>>
           <=> stmts[s].havingCondition.parts = <<>>

\* C10 (as claimed): a Statement whose WHERE builder got no node builds sql
\* without the WHERE keyword, one whose HAVING builder got no node builds
\* sql without the HAVING keyword, and ConditionBuilder.build() returns ''
\* exactly when it has no nodes.
C10_NoWhereHavingKeyword ==
    \A s \in StmtIds :
        /\ stmts[s].condition.parts = <<>>
               => ~HasWord(BuildOut(s).query, "WHERE")
        /\ stmts[s].havingCondition.parts = <<>>
               => ~HasWord(BuildOut(s).query, "HAVING")
        /\ BuildsEmptyExactlyWithoutNodes(s)

\* C10 (amended): a Statement whose WHERE (HAVING) builder holds no node
\* builds sql with no WHERE (HAVING) keyword outside the parenthesised text
\* of the sub-statements it embeds (CTEs, FROM subquery), and
\* ConditionBuilder.build() returns '' exactly when it has no nodes.
C10_NoOwnWhereHavingKeyword ==
    \A s \in StmtIds :
        /\ stmts[s].condition.parts = <<>>
               => ~HasWord(TopLevel(BuildOut(s).query, 0), "WHERE")
        /\ stmts[s].havingCondition.parts = <<>>
               => ~HasWord(TopLevel(BuildOut(s).query, 0), "HAVING")
        /\ BuildsEmptyExactlyWithoutNodes(s)

C10_Witness ==
    \E s \in StmtIds :
        /\ stmts[s].condition.parts = <<>>
        /\ stmts[s].havingCondition.parts = <<>>
        /\ ret.kind = "build"
        /\ ret.query = BuildOut(s).query
        /\ HasWord(ret.query, "WHERE")
        /\ HasWord(ret.query, "HAVING")

----------------------------------------------------------------------------
(* C11 *)

\* The common marker a placeholder token is replaced by
MaskTok(tok) == IF IsPH(tok) THEN [t |-> "?", n |-> 0, v |-> tok.v] ELSE tok
Mask(sql) == [i \in DOMAIN sql |-> MaskTok(sql[i])]
MaskParts(parts) ==
    [i \in DOMAIN parts |->
        [type |-> parts[i].type, expression |-> Mask(parts[i].expression)]]
MaskStmt(q) ==
    [q EXCEPT !.fromClause = Mask(@),
              !.condition.parts = MaskParts(@),
              !.havingCondition.parts = MaskParts(@)]
MaskRes(r) == [parts |-> MaskParts(r.parts), params |-> r.params, err |-> r.err]

\* The state the same calls have produced under MysqlDialect, as far as the
\* calls so far commute with the masking: the texts masked, the params kept
SameCallsUnderMysql ==
    /\ dialect' = "mysql"
    /\ stmts' = [i \in DOMAIN stmts |-> MaskStmt(stmts[i])]
    /\ repoQb' = [repoQb EXCEPT !.conditions =
                      [i \in DOMAIN @ |-> Mask(@[i])]]
    /\ UNCHANGED <<cbVars, trxVars, uowVars, ctxs, ret, budget, views>>

\* where()/having() of statement s with obj gives, under MysqlDialect, the
\* same params and the masked nodes
WhereCommutes(s, obj, cb) ==
    \E pg \in {ConditionBuilder_where(obj, cb.parts, ctxs[cb.ctx])} :
        ENABLED (/\ SameCallsUnderMysql
                 /\ ConditionBuilder_where(obj, MaskParts(cb.parts),
                                           ctxs[cb.ctx])' = MaskRes(pg))

GroupCommutes(s, cb) ==
    \E pgAnd \in {andGroup(cb, stmts[s].condition.parts,
                            ctxs[stmts[s].condition.ctx])},
       pgOr \in {orGroup(cb, stmts[s].condition.parts,
                          ctxs[stmts[s].condition.ctx])} :
        ENABLED (/\ SameCallsUnderMysql
                 /\ andGroup(cb, stmts[s].condition.parts,
                             ctxs[stmts[s].condition.ctx])' = MaskRes(pgAnd)
                 /\ orGroup(cb, stmts[s].condition.parts,
                            ctxs[stmts[s].condition.ctx])' = MaskRes(pgOr))

\* build() of statement s (and so fromSubquery(s, ...)) gives, under
\* MysqlDialect, the masked text, the same params and the same contexts
BuildCommutes(s) ==
    \E pg \in {QueryBuilder_build(s, ctxs)} :
        ENABLED (/\ SameCallsUnderMysql
                 /\ QueryBuilder_build(s, ctxs)'
                        = [pg EXCEPT !.query = Mask(@)])

\* C11: the same sequence of builder calls under PostgresDialect and under
\* MysqlDialect yields the same params, in the same order, and sql that is
\* identical once every placeholder token is replaced by a common marker:
\* in every state reached under PostgresDialect, each call that binds a
\* parameter or renders text gives under MysqlDialect, on the masked state,
\* the masked result with the same params.
C11_DialectSubstitution ==
    dialect = "pg" =>
        /\ \A s \in StmtIds, obj \in Objs :
               /\ WhereCommutes(s, obj, stmts[s].condition)
               /\ WhereCommutes(s, obj, stmts[s].havingCondition)
        /\ \A s \in StmtIds, cb \in Callbacks : GroupCommutes(s, cb)
        /\ \A s \in StmtIds : BuildCommutes(s)

\* A text built under PostgresDialect with two placeholders that carry
\* different indexes
C11_Witness ==
    /\ dialect = "pg"
    /\ ret.kind = "build"
    /\ \E i, j \in DOMAIN ret.query :
           /\ IsPH(ret.query[i]) /\ IsPH(ret.query[j])
           /\ ret.query[i].n # ret.query[j].n
    /\ Len(ret.params) >= 2

----------------------------------------------------------------------------
(* C12, C13, C14 *)

IsPrefix(a, b) == Len(a) <= Len(b) /\ SubSeq(b, 1, Len(a)) = a

\* C12: ParamContext is an ordered append-only store: a call of add(value)
\* on a context appends value to its sequence (length + 1, the positions
\* before it as they were) and returns dialect.placeholder(new length), so
\* on a context that started empty the i-th add returns placeholder(i) and
\* the sequence is the added values in call order; no other call changes
\* the sequence of an existing context.
C12_AppendOnlyStore ==
    [][\A c \in DOMAIN ctxs :
          /\ c \in DOMAIN ctxs'
          /\ IsPrefix(ctxs[c], ctxs'[c])
          /\ \A value \in CtxValues :
                 CtxAdd(c, value) =>
                     /\ ctxs'[c] = Append(ctxs[c], value)
                     /\ Len(ctxs'[c]) = Len(ctxs[c]) + 1
                     /\ Text(ret'.query)
                            = <<placeholder(Len(ctxs[c]) + 1)>>
                     /\ ret'.query[1].v = value
          /\ (~ \E value \in CtxValues : CtxAdd(c, value))
                 => ctxs'[c] = ctxs[c]]_vars

\* The second add on the first context has returned $2 and the context
\* holds two different values in call order
C12_Witness ==
    /\ dialect = "pg"
    /\ ret.kind = "return" /\ ret.query # <<>>
    /\ ret.query[1].n = 2
    /\ ctxs[1] = <<"1", "2">>

\* C13: an array returned by getParams() is a snapshot: it holds the
\* values the context had at the call, no later call (add on the context
\* included) changes what the caller reads in it, and a push on it throws
\* and leaves every context as it was.
C13_GetParamsSnapshot ==
    [][/\ \A i \in DOMAIN views :
             /\ i \in DOMAIN views'
             /\ ViewValues(views[i])' = ViewValues(views[i])
       /\ \A c \in DOMAIN ctxs :
             CtxGetParams(c) =>
                 ViewValues(views[Len(views)])' = ctxs[c]
       /\ \A v \in DOMAIN views, value \in CtxValues :
             ViewPush(v, value) =>
                 /\ ret'.kind = "throw"
                 /\ ctxs' = ctxs]_vars

\* A kept array is shorter than its context is by now, and a push on a
\* kept array has just been tried
C13_Witness ==
    /\ ret.kind = "throw"
    /\ \E i \in DOMAIN views :
           /\ ViewValues(views[i]) # <<>>
           /\ Len(ViewValues(views[i])) < Len(ctxs[views[i].ctx])

\* C14: clone() makes a context with the same values in the same order on
\* the same dialect and leaves every existing context as it is; from then
\* on an add on one context changes no other context, and an add on any
\* context returns the placeholder of the one dialect.
C14_CloneIndependentContexts ==
    [][\A c \in DOMAIN ctxs :
          /\ CtxClone(c) => ctxs' = Append(ctxs, ctxs[c])
          /\ \A value \in CtxValues :
                 CtxAdd(c, value) =>
                     /\ \A d \in DOMAIN ctxs \ {c} : ctxs'[d] = ctxs[d]
                     /\ ret'.query[1].t = placeholder(1).t]_vars

\* Two contexts that share their first value and have grown apart since
C14_Witness ==
    /\ Len(ctxs) >= 2
    /\ ctxs[1] # <<>> /\ ctxs[2] # <<>>
    /\ ctxs[1][1] = ctxs[2][1]
    /\ Len(ctxs[1]) >= 2 /\ Len(ctxs[2]) >= 2
    /\ ctxs[1][2] # ctxs[2][2]

----------------------------------------------------------------------------
(* C15 *)

\* The rank of a clause keyword in the order build() is said to emit
ClauseRank(t) ==
    CASE t = "WITH" -> 1 [] t = "SELECT" -> 2 [] t = "FROM" -> 3
      [] t = "JOIN" -> 4 [] t = "WHERE" -> 5 [] t = "GROUP" -> 6
      [] t = "HAVING" -> 7 [] t = "ORDER" -> 8 [] t = "LIMIT" -> 9
      [] t = "OFFSET" -> 10 [] OTHER -> 0

IsClauseKeyword(tok) == ClauseRank(tok.t) > 0

\* The tokens of statement s's text outside every parenthesis
TopText(s) == WithValue(LAMBDA sql : TopLevel(sql, 0), BuildOut(s).query)

\* The clause keywords among them
ClauseKeywords(s) == SelectSeq(TopText(s), IsClauseKeyword)

CountWord(sql, w) == Cardinality({i \in DOMAIN sql : sql[i].t = w})

\* The texts of the tokens that follow a token w
RECURSIVE After(_, _)
After(sql, w) ==
    IF Len(sql) < 2 THEN <<>>
    ELSE (IF sql[1].t = w THEN <<sql[2].t>> ELSE <<>>)
             \o After(Tail(sql), w)

JoinedTables(s) == WithValue(LAMBDA top : After(top, "JOIN"), TopText(s))

\* The tokens of sql from the first token w on (none without w)
RECURSIVE From(_, _)
From(sql, w) ==
    IF sql = <<>> THEN <<>>
    ELSE IF sql[1].t = w THEN sql ELSE From(Tail(sql), w)

\* The tokens of sql before the first token whose text is in ws
RECURSIVE Upto(_, _)
Upto(sql, ws) ==
    IF sql = <<>> \/ sql[1].t \in ws THEN <<>>
    ELSE <<sql[1]>> \o Upto(Tail(sql), ws)

IsKeyWord(tok) == tok.t \notin {",", "ORDER", "BY"}

\* The columns and directions of the ORDER BY clause, left to right
OrderClause(top) ==
    WithValue(LAMBDA rest : Upto(rest, {"LIMIT", "OFFSET"}),
              From(top, "ORDER"))

OrderKeys(s) ==
    WithValue(LAMBDA keys : [i \in DOMAIN keys |-> keys[i].t],
              SelectSeq(WithValue(OrderClause, TopText(s)), IsKeyWord))

SelectList(s) ==
    Text(Upto(Tail(From(TopText(s), "SELECT")), {"FROM"}))

ClausesInOrder(s) ==
    LET q == stmts[s]
        top == TopText(s)
        kw == ClauseKeywords(s)
    IN BuildOut(s).err = "" =>
          /\ \A i, j \in DOMAIN kw :
                 i < j => \/ ClauseRank(kw[i].t) < ClauseRank(kw[j].t)
                          \/ kw[i].t = "JOIN" /\ kw[j].t = "JOIN"
          /\ CountWord(top, "SELECT") = 1 /\ CountWord(top, "FROM") = 1
          /\ CountWord(top, "WITH") = (IF q.ctes # <<>> THEN 1 ELSE 0)
          /\ CountWord(top, "JOIN") = Len(q.joins)
          /\ CountWord(top, "WHERE")
                 = (IF q.condition.parts # <<>> THEN 1 ELSE 0)
          /\ CountWord(top, "GROUP")
                 = (IF q.groupByFields # <<>> THEN 1 ELSE 0)
          /\ CountWord(top, "HAVING")
                 = (IF q.havingCondition.parts # <<>> THEN 1 ELSE 0)
          /\ CountWord(top, "ORDER")
                 = (IF q.orderByFields # <<>> THEN 1 ELSE 0)
          /\ q.fields = <<>> => SelectList(s) = Text(<<W("*")>>)

\* C15: whatever the order of the calls, the clause keywords of the built
\* text stand in the order WITH, SELECT, FROM, joins, WHERE, GROUP BY,
\* HAVING, ORDER BY, LIMIT, OFFSET, each clause that was given once; an
\* empty select list renders `*`; a join call adds its table behind the
\* joins before it and an orderBy call its key behind the keys before it.
C15_ClauseOrder ==
    /\ []ClausesInOrder(1)
    /\ [][BuildOut(1).err = "" =>
             /\ Join(1, "j", "p.id", "j.pid")
                    => JoinedTables(1)' = Append(JoinedTables(1), "j")
             /\ LeftJoin(1, "k", "p.id", "k.pid")
                    => JoinedTables(1)' = Append(JoinedTables(1), "k")
             /\ \A o \in OrderInputs :
                    OrderBy(1, o[1], o[2])
                        => OrderKeys(1)' = OrderKeys(1) \o o]_vars

\* A text was built that carries a join, WHERE, HAVING and ORDER BY
C15_Witness ==
    /\ ret.kind = "build"
    /\ HasWord(ret.query, "JOIN")
    /\ HasWord(ret.query, "WHERE")
    /\ HasWord(ret.query, "HAVING")
    /\ HasWord(ret.query, "ORDER")

----------------------------------------------------------------------------
(* C16 *)

\* `name AS (subsql)` for each CTE of statement s, in the order of the list
CteTexts(s) ==
    [i \in DOMAIN stmts[s].ctes |->
        <<W(stmts[s].ctes[i].name), W("AS"), W("(")>>
            \o BuildOut(stmts[s].ctes[i].query).query \o <<W(")")>>]

\* The text in front of the select list that the CTEs of s call for
WithPrefix(s) ==
    <<W("WITH")>>
        \o (IF \E i \in DOMAIN stmts[s].ctes : stmts[s].ctes[i].recursive
            THEN <<W("RECURSIVE")>> ELSE <<>>)
        \o JoinToks(CteTexts(s), <<W(",")>>)
        \o <<W("SELECT")>>

StartsWith(sql, prefix) ==
    /\ Len(prefix) <= Len(sql)
    /\ Text(SubSeq(sql, 1, Len(prefix))) = Text(prefix)

\* C16: a statement with CTEs builds a text that starts with WITH, then
\* RECURSIVE exactly when at least one CTE was added with recursive = true
\* (once for the clause), then the CTEs as `name AS (subsql)` in the order
\* of the with() calls, comma separated, then the SELECT; a statement
\* without CTE builds a text that starts with SELECT and has no WITH.
C16_WithClause ==
    BuildOut(1).err = "" =>
        IF stmts[1].ctes = <<>>
        THEN /\ StartsWith(BuildOut(1).query, <<W("SELECT")>>)
             /\ ~HasWord(TopText(1), "WITH")
        ELSE /\ StartsWith(BuildOut(1).query, WithPrefix(1))
             /\ CountWord(TopText(1), "WITH") = 1
             /\ CountWord(TopText(1), "RECURSIVE") <= 1

\* A text was built for two CTEs, the second with() call being the
\* recursive one
C16_Witness ==
    /\ ret.kind = "build"
    /\ Len(stmts[1].ctes) = 2
    /\ stmts[1].ctes[1].name = "c" /\ ~stmts[1].ctes[1].recursive
    /\ stmts[1].ctes[2].name = "d" /\ stmts[1].ctes[2].recursive
    /\ HasWord(ret.query, "RECURSIVE")

----------------------------------------------------------------------------
(* C17, C18, C19 *)

\* The keyword w stands in the text with the number n behind it
HasCount(sql, w, n) ==
    \E i \in 1..(Len(sql) - 1) : sql[i].t = w /\ sql[i + 1] = Num(n)

\* C17: a limit or offset that was set is emitted literally, 0 included:
\* limit(n) yields `LIMIT n` and offset(n) yields `OFFSET n`; LIMIT/OFFSET
\* are left out only when never set.
C17_ZeroLimitOffsetEmitted ==
    BuildOut(1).err = "" =>
        /\ IF stmts[1].limitCount # <<>>
           THEN HasCount(TopText(1), "LIMIT", stmts[1].limitCount[1])
           ELSE ~HasWord(TopText(1), "LIMIT")
        /\ IF stmts[1].offsetCount # <<>>
           THEN HasCount(TopText(1), "OFFSET", stmts[1].offsetCount[1])
           ELSE ~HasWord(TopText(1), "OFFSET")

\* C18: with(name, x), fromSubquery(x, alias) and an EXISTS condition
\* whose x is not a statement throw at that very call and leave the
\* statement and the contexts as they were; build() never throws.
C18_NonStatementRejectedAtCall ==
    [][/\ \A cte \in CteInputs :
             (cte.query = NonStatement
                 /\ With(1, cte.name, cte.query, cte.recursive))
             => (ret'.kind = "throw" /\ stmts' = stmts /\ ctxs' = ctxs)
       /\ FromSubquery(1, NonStatement, "s")
             => (ret'.kind = "throw" /\ stmts' = stmts /\ ctxs' = ctxs)
       /\ Where(1, ObjExistsScalar)
             => (ret'.kind = "throw" /\ stmts' = stmts /\ ctxs' = ctxs)
       /\ Build(1) => ret'.kind = "build"]_vars

HasNonString(fields) ==
    \E i \in DOMAIN fields.items : fields.items[i].type # "string"

\* C19: select() and groupBy() given a list with a non-string element
\* throw at the call and store nothing.
C19_NonStringFieldsRejected ==
    [][\A fields \in SelectInputs \cup GroupByInputs :
          (HasNonString(fields)
              /\ (Select(1, fields) \/ GroupBy(1, fields)))
          => (ret'.kind = "throw" /\ stmts' = stmts)]_vars

----------------------------------------------------------------------------
(* UnitOfWork: three tracked lists, commit(repository) and clear().        *)
(* The lists are arrays on the heap (arrays), the fields of the unit of    *)
(* work hold their addresses (uow). commit() is an async function: one     *)
(* activation per call (commits), one step per settling of the repository  *)
(* call it awaits. repoLog is what the repository sees.                    *)

\* Calls of registerNew/registerDirty/registerRemoved, commit and clear in a
\* run of SpecUow.
MaxUowCalls == 4


\* The three for-of loops of commit(), in the order of the code
PhaseOp == <<"insert", "update", "delete">>

PhaseField_dirtyFirst(p) ==
    <<"dirtyEntities", "newEntities", "removedEntities">>[p]

PhaseField(p) == <<"newEntities", "dirtyEntities", "removedEntities">>[p]

AfterLoops == 4

UnitOfWork_clear_keepsRemoved(u, fresh) ==
    [newEntities |-> fresh + 1, dirtyEntities |-> fresh + 2,
     removedEntities |-> u.removedEntities]

\* this.newEntities = []; this.dirtyEntities = []; this.removedEntities = []
UnitOfWork_clear(u, fresh) ==
    [newEntities |-> fresh + 1, dirtyEntities |-> fresh + 2,
     removedEntities |-> fresh + 3]

\* for (const entity of this.<field>): the field is read once, when the
\* loop starts; the iterator then follows that array
enterLoop(c, p) ==
    IF p = AfterLoops
    THEN [c EXCEPT !.phase = AfterLoops, !.array = 0, !.index = 0]
    ELSE [c EXCEPT !.phase = p, !.array = uow[PhaseField(p)], !.index = 0,
                   !.iter[p] = uow[PhaseField(p)]]

\* From the start of commit(), or from the resolution of the call it awaited,
\* to the next repository call or to the end of the function
RECURSIVE commit_next(_)
commit_next(c) ==
    IF c.phase = AfterLoops THEN [c EXCEPT !.pc = "resolved"]
    ELSE IF c.index < Len(arrays[c.array])
    THEN [c EXCEPT !.index = @ + 1, !.pc = "await"]
    ELSE commit_next(enterLoop(c, c.phase + 1))

Commit_new ==
    [pc |-> "start", phase |-> 0, array |-> 0, index |-> 0,
     iter |-> <<0, 0, 0>>,
     atCall |-> <<uow.newEntities, uow.dirtyEntities, uow.removedEntities>>,
     registered |-> <<arrays[uow.newEntities], arrays[uow.dirtyEntities],
                      arrays[uow.removedEntities]>>]

RepoEvent(id, ev, c) ==
    [commit |-> id, ev |-> ev, op |-> PhaseOp[c.phase],
     entity |-> arrays[c.array][c.index]]

Started(id, c) ==
    IF c.pc = "await" THEN <<RepoEvent(id, "start", c)>> ELSE <<>>

RECURSIVE SumLen(_)
SumLen(lists) ==
    IF lists = <<>> THEN 0 ELSE Len(Head(lists)) + SumLen(Tail(lists))

\* Entities registered so far, cleared lists included
Registered == SumLen(arrays)

\* Calls made on the unit of work so far: clear() allocates three arrays
UowCalls == Registered + Len(commits) + (Len(arrays) \div 3 - 1)

Register(field, entity) ==
    /\ UowCalls < MaxUowCalls
    /\ arrays' = [arrays EXCEPT ![uow[field]] = Append(@, entity)]
    /\ UNCHANGED <<builderVars, cbVars, trxVars, uow, commits, repoLog>>

RegisterNew(entity) == Register("newEntities", entity)

RegisterDirty(entity) == Register("dirtyEntities", entity)

RegisterRemoved(entity) == Register("removedEntities", entity)

\* The call of commit(repository): runs to its first await, or to its end
\* when the three lists are empty
Commit ==
    /\ UowCalls < MaxUowCalls
    /\ LET c == commit_next(enterLoop(Commit_new, 1))
       IN /\ commits' = Append(commits, c)
          /\ repoLog' = repoLog \o Started(Len(commits) + 1, c)
    /\ UNCHANGED <<builderVars, cbVars, trxVars, uow, arrays>>

\* The awaited repository call resolves: the loop goes on
RepositoryResolved(id) ==
    /\ commits[id].pc = "await"
    /\ LET c == commit_next(commits[id])
       IN /\ commits' = [commits EXCEPT ![id] = c]
          /\ repoLog' = repoLog \o <<RepoEvent(id, "finish", commits[id])>>
                                \o Started(id, c)
    /\ UNCHANGED <<builderVars, cbVars, trxVars, uow, arrays>>

\* The awaited repository call rejects: commit() rejects with its error
RepositoryRejected(id) ==
    /\ commits[id].pc = "await"
    /\ commits' = [commits EXCEPT ![id].pc = "rejected"]
    /\ repoLog' = Append(repoLog, RepoEvent(id, "finish", commits[id]))
    /\ UNCHANGED <<builderVars, cbVars, trxVars, uow, arrays>>

Clear ==
    /\ UowCalls < MaxUowCalls
    /\ uow' = UnitOfWork_clear(uow, Len(arrays))
    /\ arrays' = arrays \o <<<<>>, <<>>, <<>>>>
    /\ UNCHANGED <<builderVars, cbVars, trxVars, commits, repoLog>>

InitUow ==
    /\ dialect = "pg"
    /\ stmts = <<>>
    /\ ctxs = <<>>
    /\ repoQb = BuildersQB_new("r")
    /\ ret = NoCall
    /\ budget = 0
    /\ views = <<>>
    /\ NoBuilder
    /\ NoTransaction
    /\ NoUnitOfWork

\* UnitOfWork never looks into an entity: each register call is handed
\* one that no call was handed before
Entities == {Registered + 1}

NextUow ==
    \/ \E e \in Entities : RegisterNew(e)
    \/ \E e \in Entities : RegisterDirty(e)
    \/ \E e \in Entities : RegisterRemoved(e)
    \/ Commit
    \/ \E id \in 1..Len(commits) : RepositoryResolved(id)
    \/ \E id \in 1..Len(commits) : RepositoryRejected(id)
    \/ Clear

SpecUow == InitUow /\ [][NextUow]_vars

----------------------------------------------------------------------------
(* C20 *)

\* C20: where({e: {op: 'EXISTS', value: S}}) with S a statement obtained
\* from Database.table() returns, appends S's parameters to the enclosing
\* context and adds one node `EXISTS ( <sql of S> )`.
C20_ExistsAcceptsTableStatement ==
    [][Where(1, ObjExistsTable) =>
          /\ ret'.kind = "return"
          /\ Len(stmts'[1].condition.parts)
                 = Len(stmts[1].condition.parts) + 1
          /\ LET node == stmts'[1].condition.parts[
                             Len(stmts'[1].condition.parts)].expression
             IN /\ Len(node) >= 3
                /\ node[1] = W("EXISTS")
                /\ node[2] = W("(")
                /\ node[Len(node)] = W(")")]_vars

----------------------------------------------------------------------------
(* C21 *)

\* A second run of the same calls binds other values: every non-null value
\* is replaced by one value of that run
OtherValue == "v"
Blind(v) == IF v = NULL THEN NULL ELSE OtherValue
BlindSeq(values) == [i \in DOMAIN values |-> Blind(values[i])]
BlindTok(tok) == IF IsPH(tok) THEN [tok EXCEPT !.v = Blind(@)] ELSE tok
BlindText(sql) == [i \in DOMAIN sql |-> BlindTok(sql[i])]
BlindParts(parts) ==
    [i \in DOMAIN parts |->
        [type |-> parts[i].type, expression |-> BlindText(parts[i].expression)]]
BlindObj(obj) ==
    [i \in DOMAIN obj |->
        [key |-> obj[i].key,
         condition |-> [obj[i].condition EXCEPT !.items = BlindSeq(@)]]]
RECURSIVE BlindCb(_)
BlindCb(cb) ==
    [i \in DOMAIN cb |->
        [call |-> cb[i].call, obj |-> BlindObj(cb[i].obj),
         expression |-> cb[i].expression, cb |-> BlindCb(cb[i].cb)]]
BlindStmt(q) ==
    [q EXCEPT !.fromClause = BlindText(@),
              !.condition.parts = BlindParts(@),
              !.havingCondition.parts = BlindParts(@)]
BlindRes(r) ==
    [parts |-> BlindParts(r.parts), params |-> BlindSeq(r.params),
     err |-> r.err]
BlindBuilt(b) ==
    [query |-> BlindText(b.query), params |-> BlindSeq(b.params)]

BlindRepo(qb) ==
    [qb EXCEPT !.conditions = [i \in DOMAIN @ |-> BlindText(@[i])],
               !.params = BlindSeq(@)]

\* where()/having() with obj gives, on the builder and the context the
\* second run has, the nodes the first run gets, text for text, and as
\* many params
WhereSameText(obj, parts, params) ==
    BlindRes(ConditionBuilder_where(BlindObj(obj), BlindParts(parts),
                                    BlindSeq(params)))
        = BlindRes(ConditionBuilder_where(obj, parts, params))

GroupSameText(cb, parts, params) ==
    /\ BlindRes(andGroup(BlindCb(cb), BlindParts(parts), BlindSeq(params)))
           = BlindRes(andGroup(cb, parts, params))
    /\ BlindRes(orGroup(BlindCb(cb), BlindParts(parts), BlindSeq(params)))
           = BlindRes(orGroup(cb, parts, params))

BlindConds(r) ==
    [conditions |-> [i \in DOMAIN r.conditions |-> BlindText(r.conditions[i])],
     params |-> BlindSeq(r.params)]

RepoWhereSameText(obj) ==
    BlindConds(BuildersCB_where(BlindObj(obj), BlindRepo(repoQb).conditions,
                                BlindRepo(repoQb).params))
        = BlindConds(BuildersCB_where(obj, repoQb.conditions, repoQb.params))

\* build() of a statement without CTE, on the contexts cx
buildPlain(q, cx) == renderQuery(q, [parts |-> <<>>, cx |-> cx, err |-> ""])

BuildSameText ==
    /\ stmts[1].ctes = <<>>
    /\ BlindBuilt(buildPlain(BlindStmt(stmts[1]),
                             [i \in DOMAIN ctxs |-> BlindSeq(ctxs[i])]))
           = BlindBuilt(buildPlain(stmts[1], ctxs))
    /\ buildPlain(stmts[1], ctxs).query = BuildOut(1).query
    /\ BlindBuilt(BuildersQB_build(BlindRepo(repoQb)))
           = BlindBuilt(BuildersQB_build(repoQb))

\* No token of the text of statement 1 is a value one of its contexts holds
NoValueInText ==
    \A i \in DOMAIN BuildOut(1).query :
        \A c \in DOMAIN ctxs :
            \A k \in DOMAIN ctxs[c] :
                BuildOut(1).query[i].t # ctxs[c][k]

\* C21: the sql is independent of the bound values: in every reachable
\* state, each where()/having()/group call and each build() gives in a run
\* of the same calls with other non-null scalar values (same columns,
\* operators and array lengths) the same text, token for token, and as
\* many params; no value handed to ParamContext.add is a token of the sql.
C21_SqlIndependentOfValues ==
    /\ \A obj \in CondObjs :
           WhereSameText(obj, stmts[1].condition.parts, ctxs[1])
    /\ \A obj \in CondHavingObjs :
           WhereSameText(obj, stmts[1].havingCondition.parts, ctxs[1])
    /\ \A cb \in CondCallbacks :
           GroupSameText(cb, stmts[1].condition.parts, ctxs[1])
    /\ \A obj \in RepoObjs : RepoWhereSameText(obj)
    /\ BuildSameText
    /\ NoValueInText

\* A text was built with an IN list for two different values
C21_Witness ==
    /\ ret.kind = "build"
    /\ HasWord(ret.query, "IN")
    /\ CountPH(ret.query) >= 2
    /\ \E i, j \in DOMAIN ret.params : ret.params[i] # ret.params[j]

----------------------------------------------------------------------------
(* C22, C23, C24, C25 *)

\* The calls of transaction() that got their client
Connected == {t \in DOMAIN trxs : trxs[t].client # 0}
ClientLog(t) == clients[trxs[t].client]
Sent(t, q) == \E i \in DOMAIN ClientLog(t) : ClientLog(t)[i] = q
Times(log, q) == Cardinality({i \in DOMAIN log : log[i] = q})
First(log, q) == CHOOSE i \in DOMAIN log :
                     log[i] = q /\ \A j \in 1..(i - 1) : log[j] # q
CbResolved(t) == trxs[t].result # ""
CbRejected(t) == trxs[t].cbError # ""

\* BEGIN is the first query on the client and the callback is called after
\* it; a resolved callback is followed by COMMIT, a rejected one by
\* ROLLBACK without COMMIT
BeginThenCallbackThenEnd(t) ==
    /\ ClientLog(t)[1] = "BEGIN"
    /\ Times(ClientLog(t), "BEGIN") = 1
    /\ trxs[t].cbCalls > 0 => trxs[t].cbAt >= 1
    /\ CbResolved(t) => Sent(t, "COMMIT")
    /\ CbRejected(t) => Sent(t, "ROLLBACK") /\ ~Sent(t, "COMMIT")

\* C22 (as claimed): BEGIN is issued before the callback runs; if the
\* callback resolves, COMMIT is issued and no ROLLBACK; if it rejects,
\* ROLLBACK is issued and no COMMIT; on no path are both COMMIT and
\* ROLLBACK issued for one transaction.
C22_CommitOrRollbackNeverBoth ==
    \A t \in Connected :
        /\ BeginThenCallbackThenEnd(t)
        /\ CbResolved(t) => ~Sent(t, "ROLLBACK")
        /\ ~(Sent(t, "COMMIT") /\ Sent(t, "ROLLBACK"))

\* C22 (amended): BEGIN is issued before the callback runs; if the callback
\* resolves, COMMIT is issued, and ROLLBACK only when that COMMIT failed;
\* if it rejects, ROLLBACK is issued and no COMMIT; COMMIT is issued at
\* most once, and COMMIT and ROLLBACK are both issued only on the path
\* where COMMIT failed, every ROLLBACK after the COMMIT.
C22_RollbackAfterCommitOnlyIfCommitFailed ==
    \A t \in Connected :
        /\ BeginThenCallbackThenEnd(t)
        /\ Times(ClientLog(t), "COMMIT") <= 1
        /\ Sent(t, "COMMIT") => CbResolved(t)
        /\ (Sent(t, "COMMIT") /\ Sent(t, "ROLLBACK")) =>
               /\ trxs[t].error = "COMMIT failed"
               /\ First(ClientLog(t), "COMMIT")
                      < First(ClientLog(t), "ROLLBACK")

\* A transaction ended whose callback resolved and whose COMMIT failed
C22_Witness ==
    \E t \in Connected :
        /\ trxs[t].pc = "done"
        /\ CbResolved(t)
        /\ Sent(t, "COMMIT") /\ Sent(t, "ROLLBACK")

\* C23: whenever pool.connect() succeeded, the client is released exactly
\* once on every path, and after the last query sent on it: no release
\* while transaction() runs, one when it has ended, as the last event of
\* the client.
C23_ReleasedOnceAfterLastQuery ==
    \A t \in Connected :
        /\ Times(ClientLog(t), "release")
               = (IF trxs[t].pc = "done" THEN 1 ELSE 0)
        /\ trxs[t].pc = "done"
               => ClientLog(t)[Len(ClientLog(t))] = "release"

\* A transaction ended with the error of a failed ROLLBACK
C23_Witness ==
    \E t \in Connected :
        /\ trxs[t].pc = "done"
        /\ trxs[t].outcome = Rejected("ROLLBACK failed")
        /\ ClientLog(t)[Len(ClientLog(t))] = "release"

\* C24: when the callback rejects with E, transaction() rejects with that
\* same E after ROLLBACK was issued, whatever the outcome of the ROLLBACK;
\* when the callback resolves with v and COMMIT succeeds, transaction()
\* resolves with v.
C24_CallbackErrorRethrown ==
    \A t \in Connected :
        trxs[t].pc = "done" =>
            /\ CbRejected(t) =>
                   /\ Sent(t, "ROLLBACK")
                   /\ trxs[t].outcome = Rejected(trxs[t].cbError)
            /\ (CbResolved(t) /\ trxs[t].error = "") =>
                   trxs[t].outcome = Resolved(trxs[t].result)

\* C25: Database.transaction(cb) calls cb exactly once, after BEGIN and
\* before COMMIT/ROLLBACK, with a Database whose executor is bound to the
\* client of the transaction: every query the callback sends through it
\* goes to that client and none to a pool.
C25_CallbackOnceOnTransactionClient ==
    \A t \in Connected :
        /\ trxs[t].cbCalls <= 1
        /\ (trxs[t].pc # "BEGIN" /\ trxs[t].error # "BEGIN failed") =>
               /\ trxs[t].cbCalls = 1
               /\ ClientLog(t)[trxs[t].cbAt] = "BEGIN"
               /\ trxs[t].trxDb.executor.client = trxs[t].client
        /\ Times(ClientLog(t), "query") = trxs[t].sent
        /\ poolLog = <<>>

----------------------------------------------------------------------------
(* C26 *)

\* The string build() of builder b returns
CbText(b) == ConditionBuilder_build(nodeLists[builders[b].parts], "WHERE")

\* The values the placeholders of the nodes behind the first n nodes stand
\* for, in text order
BoundBy(parts, n) ==
    PHValues(Concat([i \in 1..(Len(parts) - n) |-> parts[n + i].expression]))

\* C26: clone() returns a builder with an equal but separate node list on
\* the ParamContext of the original: a where() on one builder leaves the
\* build() string of every other builder as it was, and the values it
\* binds are appended to the one parameter sequence all of them share.
C26_CloneSeparateNodesSharedContext ==
    [][\A b \in DOMAIN builders :
          /\ CbClone(b) =>
                 \E new \in {Len(builders) + 1} :
                     /\ CbText(new)' = CbText(b)
                     /\ \A d \in DOMAIN builders : CbText(d)' = CbText(d)
                     /\ builders'[new].ctx = builders[b].ctx
                     /\ ctxs' = ctxs
          /\ \A obj \in CloneObjs :
                 CbWhere(b, obj) =>
                     /\ \A d \in DOMAIN builders \ {b} : CbText(d)' = CbText(d)
                     /\ Len(ctxs') = 1
                     /\ ctxs'[1] =
                            ctxs[1]
                              \o BoundBy(nodeLists'[builders[b].parts],
                                         Len(nodeLists[builders[b].parts]))]_vars

\* A builder and its clone hold different conditions and the context holds
\* the values of both
C26_Witness ==
    /\ Len(builders) >= 2
    /\ CbText(1) # <<>> /\ CbText(2) # <<>>
    /\ ~IsPrefix(CbText(1), CbText(2)) /\ ~IsPrefix(CbText(2), CbText(1))
    /\ Len(ctxs[1]) > CountPH(CbText(1))
    /\ Len(ctxs[1]) > CountPH(CbText(2))

----------------------------------------------------------------------------
(* C27 *)

BuildersText == BuildersCB_build(repoQb.conditions, "WHERE")

NoAndOr(sql) ==
    \A i \in 1..(Len(sql) - 1) : ~(sql[i].t = "AND" /\ sql[i + 1].t = "OR")

\* WHERE a = ? OR (b = ?)
OrExampleText ==
    <<T("WHERE"), T("a"), T("="), P(1), T("OR"), T("("), T("b"), T("="),
      P(2), T(")")>>

\* C27: on the ConditionBuilder of the package entry point, orGroup adds a
\* group connected to the conditions before it by OR: after where({a: 1}),
\* orGroup(g => g.where({b: 2})) makes build() return
\* `WHERE a = $1 OR (b = $2)`, and no build() output holds `AND OR`.
C27_BuildersOrGroupJoinsWithOr ==
    /\ []NoAndOr(BuildersText)
    /\ [][(/\ Text(BuildersText) = <<T("WHERE"), T("a"), T("="), P(1)>>
           /\ BuildersOrGroup(<<CallWhere(LevelObj(1))>>))
          => Text(BuildersText)' = OrExampleText]_vars

----------------------------------------------------------------------------
(* C28 *)

\* C28: a where() or having() call that throws leaves the builder as it was
\* before the call: no node appended, no parameter registered, also for the
\* keys of the object that precede the offending key.
C28_ThrowingWhereLeavesBuilder ==
    [][((\/ \E obj \in CondObjs : Where(1, obj)
         \/ \E obj \in CondHavingObjs : Having(1, obj))
        /\ ret'.kind = "throw")
       => (stmts' = stmts /\ ctxs' = ctxs)]_vars

----------------------------------------------------------------------------
(* C29, C30 *)

CallsOf(id) == SelectSeq(repoLog, LAMBDA e : e.commit = id)

\* The entities commit id handed to the repository in loop p, in call order
OpCalls(id, p) ==
    LET starts == SelectSeq(repoLog, LAMBDA e : /\ e.commit = id
                                                /\ e.ev = "start"
                                                /\ e.op = PhaseOp[p])
    IN [i \in 1..Len(starts) |-> starts[i].entity]


PhaseOf(op) == CHOOSE p \in 1..3 : PhaseOp[p] = op

\* Each repository call of the commit is finished before its next one starts
OneAtATime(id) ==
    LET log == CallsOf(id)
    IN \A i \in 1..Len(log) :
          IF i % 2 = 1 THEN log[i].ev = "start"
          ELSE /\ log[i].ev = "finish"
               /\ log[i].op = log[i - 1].op
               /\ log[i].entity = log[i - 1].entity

InsertsUpdatesDeletes(id) ==
    LET log == CallsOf(id)
    IN \A i, j \in 1..Len(log) :
          i < j => PhaseOf(log[i].op) <= PhaseOf(log[j].op)

\* No clear() has replaced a list since commit was called
ListsKept(id) ==
    commits[id].atCall
        = <<uow.newEntities, uow.dirtyEntities, uow.removedEntities>>

\* C29: commit(repository) makes its repository calls one at a time, each
\* awaited before the next, inserts first, then updates, then deletes; a
\* commit that resolves has inserted every entity that was registered new
\* when it was called, in registration order, and likewise updated the
\* dirty and deleted the removed ones, and has handed the repository no
\* entity that is not in the list of its loop.
C29_CommitSequentialInOrder ==
    \A id \in 1..Len(commits) :
        /\ OneAtATime(id)
        /\ InsertsUpdatesDeletes(id)
        /\ \A p \in 1..3 :
              commits[id].iter[p] # 0
                  => IsPrefix(OpCalls(id, p), arrays[commits[id].iter[p]])
        /\ (commits[id].pc = "resolved" /\ ListsKept(id))
              => \A p \in 1..3 :
                    IsPrefix(commits[id].registered[p], OpCalls(id, p))

C29_Witness ==
    \E id \in 1..Len(commits) :
        /\ commits[id].pc = "resolved"
        /\ ListsKept(id)
        /\ Len(commits[id].registered[1]) = 2
        /\ commits[id].registered[1][1] # commits[id].registered[1][2]
        /\ commits[id].registered[2] # <<>>
        /\ Len(CallsOf(id)) = 6

AllEmpty(u) ==
    /\ arrays[u.newEntities] = <<>>
    /\ arrays[u.dirtyEntities] = <<>>
    /\ arrays[u.removedEntities] = <<>>

CommitStep ==
    \/ Commit
    \/ \E id \in 1..Len(commits) : RepositoryResolved(id)
    \/ \E id \in 1..Len(commits) : RepositoryRejected(id)

\* C30: no step of commit() changes the three lists, so that a commit called
\* after another one, with no clear() between them, owes the repository every
\* call the first one owed and, when it resolves, has made them all again;
\* clear() leaves the three lists empty, and a commit called while they are
\* empty resolves without a repository call.
C30_CommitKeepsListsClearEmpties ==
    /\ [][CommitStep => (uow' = uow /\ arrays' = arrays)]_vars
    /\ [][Clear => AllEmpty(uow)']_vars
    /\ [][(Commit /\ AllEmpty(uow))
          => \E new \in {Len(commits) + 1} :
                (repoLog' = repoLog /\ commits'[new].pc = "resolved")]_vars
    /\ [](\A id1, id2 \in 1..Len(commits) :
            (id1 < id2 /\ commits[id1].atCall = commits[id2].atCall)
               => \A p \in 1..3 :
                     /\ IsPrefix(commits[id1].registered[p],
                                 commits[id2].registered[p])
                     /\ (commits[id2].pc = "resolved" /\ ListsKept(id2))
                           => IsPrefix(commits[id1].registered[p],
                                       OpCalls(id2, p)))

C30_Witness ==
    /\ Len(commits) = 2
    /\ \A id \in 1..2 : commits[id].pc = "resolved"
    /\ commits[1].registered[1] # <<>>
    /\ OpCalls(1, 1) = commits[1].registered[1]
    /\ OpCalls(2, 1) = OpCalls(1, 1)
    /\ Len(arrays) > 3
    /\ AllEmpty(uow)

====
